---- MODULE Spec2Model ----
(***************************************************************************)
(* Swimmer Tracker: the client-side optimistic repositories (workouts,     *)
(* competitions), the personal-bests view of the remote store, and the     *)
(* handlers of App.tsx that mutate them.                                   *)
(*                                                                         *)
(* Numbers a form can hold are JavaScript values (a number, NaN,           *)
(* undefined, null); dates are integers yyyymmdd; time_sec is counted in   *)
(* hundredths of a second (so the source's 1 s is 100 and 40 s is 4000).   *)
(***************************************************************************)
EXTENDS Integers, Sequences, FiniteSets, TLC

\* ---------------------------------------------------------------- bounds
\* Clicks on the forms and tables that change state (Edit, Cancel, an accepted
\* submit, a confirmed Delete) in one behaviour.
MaxOps == 2
\* Auth events (sign in, sign out, expiry, token refresh) in one behaviour.
MaxAuth == 2

\* ------------------------------------------------------------ JS values
Num(n) == [k |-> "num", v |-> n]
\* The number n + 0.5.
Half(n) == [k |-> "half", v |-> n]
IsNumber(x) == x.k \in {"num", "half"}
\* Twice a number, for comparing.
Twice(x) == IF x.k = "half" THEN 2 * x.v + 1 ELSE 2 * x.v
NaN == [k |-> "nan", v |-> 0]
Undefined == [k |-> "undefined", v |-> 0]
Null == [k |-> "null", v |-> 0]

\* Strings: plain text, the decimal spelling of a number, the yyyy-mm-dd
\* spelling of a date, and a string with white space around it.
Str(s) == [k |-> "str", v |-> s]
NumStr(n) == [k |-> "numstr", v |-> n]
\* The decimal spelling of n + 0.5.
HalfStr(n) == [k |-> "halfstr", v |-> n]
DateStr(d) == [k |-> "datestr", v |-> d]
Padded(x) == [k |-> "pad", v |-> x]

\* s.trim()
Trim(x) == IF x.k = "pad" THEN x.v ELSE x

\* Number(x): a number stays, null and the empty string are 0, a string that
\* spells a number (white space around it or not) is that number, anything
\* else is NaN.
Number(x) ==
  LET y == Trim(x)
  IN  IF IsNumber(y) THEN y
      ELSE IF y.k = "null" THEN Num(0)
      ELSE IF y.k = "numstr" THEN Num(y.v)
      ELSE IF y.k = "halfstr" THEN Half(y.v)
      ELSE IF y.k = "str" /\ y.v = "" THEN Num(0)
      ELSE NaN

\* JavaScript truthiness: a number other than 0 and NaN, a non-empty string.
Truthy(x) ==
  \/ x.k = "num" /\ x.v # 0
  \/ x.k = "half"
  \/ x.k \in {"numstr", "halfstr", "datestr", "pad"}
  \/ x.k = "str" /\ x.v # ""

\* a || b
OrElse(a, b) == IF Truthy(a) THEN a ELSE b

\* Math.max / Math.min on numbers (NaN is contagious).
MathMax(a, b) ==
  IF IsNumber(a) /\ IsNumber(b) THEN (IF Twice(a) >= Twice(b) THEN a ELSE b) ELSE NaN
MathMin(a, b) ==
  IF IsNumber(a) /\ IsNumber(b) THEN (IF Twice(a) <= Twice(b) THEN a ELSE b) ELSE NaN

\* ------------------------------------------------------------ identity
NoUser == "none"
Users == {"u1"}

NoId == [t |-> "none", n |-> 0]
SrvId(n) == [t |-> "srv", n |-> n]
TmpId(n) == [t |-> "tmp", n |-> n]
IsTemp(id) == id.t = "tmp"

\* rows[idx] with idx = -1: undefined.
UndefinedRec == [id |-> NoId]

\* ------------------------------------------------------------ records
Today == 20240601

emptyWorkout ==
  [id |-> NoId, user_id |-> NoUser, date |-> Today, distance_m |-> Num(0),
   duration_min |-> Num(0), stroke |-> "Free", rpe |-> Num(5), notes |-> ""]

emptyComp ==
  [id |-> NoId, user_id |-> NoUser, date |-> Today, meet |-> "",
   distance_m |-> Num(50), stroke |-> "Free", time_sec |-> Num(4000)]

\* What the user types into the training form before submitting: values
\* that saveWorkout has to normalise.
WInputs ==
  { [date |-> 20240302, distance_m |-> Num(-5), duration_min |-> NaN,
     stroke |-> "Drill", rpe |-> Num(0), notes |-> "kick"] }

\* What the user types into the competition form before submitting: values
\* that saveCompetition has to normalise.
CInputs ==
  { [date |-> 20240105, meet |-> "C", distance_m |-> Num(0), stroke |-> "Back",
     time_sec |-> NaN] }

\* The form's fields overwritten by what the user typed (the onChange handlers).
TypedWorkout(d, inp) ==
  [d EXCEPT !.date = inp.date, !.distance_m = inp.distance_m,
            !.duration_min = inp.duration_min, !.stroke = inp.stroke,
            !.rpe = inp.rpe, !.notes = inp.notes]

TypedComp(d, inp) ==
  [d EXCEPT !.date = inp.date, !.meet = inp.meet, !.distance_m = inp.distance_m,
            !.stroke = inp.stroke, !.time_sec = inp.time_sec]

\* setDraft({ ...r }): a held row back in the form.
WorkoutToDraft(r) ==
  [r EXCEPT !.distance_m = Num(r.distance_m), !.duration_min = Num(r.duration_min)]

CompToDraft(r) ==
  [r EXCEPT !.distance_m = Num(r.distance_m), !.time_sec = Num(r.time_sec)]

\* const clean: Workout = {...}
cleanWorkout(d) ==
  [d EXCEPT !.distance_m = MathMax(Num(0), OrElse(Number(d.distance_m), Num(0))).v,
            !.duration_min = MathMax(Num(0), OrElse(Number(d.duration_min), Num(0))).v,
            !.rpe = IF Truthy(d.rpe)
                    THEN MathMin(Num(10), MathMax(Num(1), Number(d.rpe)))
                    ELSE Undefined]

\* const clean: Competition = {...}
cleanComp(d) ==
  [d EXCEPT !.distance_m = MathMax(Num(25), OrElse(Number(d.distance_m), Num(50))).v,
            !.time_sec = MathMax(Num(100), OrElse(Number(d.time_sec), Num(4000))).v]

\* --------------------------------------------------------------- pace
\* Fractions n / d in lowest terms, for the quotients of numbers that are not
\* negative; equal when the cross products are.
RECURSIVE GCD(_, _)
GCD(a, b) == IF b = 0 THEN a ELSE GCD(b, a % b)
Rat(n, d) == [n |-> n \div GCD(n, d), d |-> d \div GCD(n, d)]
RatOf(x) == Rat(Twice(x), 2)
RatMul(a, b) == Rat(a.n * b.n, a.d * b.d)
RatDiv(a, b) == Rat(a.n * b.d, a.d * b.n)
RatEq(a, b) == a.n * b.d = b.n * a.d

pacePer100(distance_m, duration_min) ==
  IF ~Truthy(distance_m) \/ ~Truthy(duration_min) THEN Rat(0, 1)
  ELSE RatDiv(RatMul(RatOf(duration_min), Rat(100, 1)),
              RatDiv(RatOf(distance_m), Rat(100, 1)))

\* ------------------------------------------------------- list updates
\* Each is one functional setRows / setComps update of a handler.
HasId(r, id) == \E i \in DOMAIN r : r[i].id = id

\* rows.findIndex(...) then rows[idx]
FindById(r, id) ==
  IF HasId(r, id)
  THEN r[CHOOSE i \in DOMAIN r : r[i].id = id /\ \A j \in DOMAIN r : r[j].id = id => i <= j]
  ELSE UndefinedRec

\* r.map((x) => (x.id === editingId ? updated : x))
OptimisticUpdate(r, id, updated) ==
  [i \in DOMAIN r |-> IF r[i].id = id THEN updated ELSE r[i]]

\* r.map((x) => (x.id === editingId ? prev : x))          (update failed)
RollbackUpdateIdentity(r, id, prev) == r
RollbackUpdate(r, id, prev) ==
  [i \in DOMAIN r |-> IF r[i].id = id THEN prev ELSE r[i]]

\* [optimistic, ...r]
OptimisticInsertAppend(r, optimistic) == Append(r, optimistic)
OptimisticInsert(r, optimistic) == <<optimistic>> \o r

\* r.filter((x) => x.id !== optimistic.id)                (insert failed)
RollbackInsertIdentity(r, id) == r
RollbackInsert(r, id) == SelectSeq(r, LAMBDA x : x.id # id)

\* r.map((x) => (x.id === optimistic.id ? data : x))      (insert succeeded)
ConfirmInsert(r, id, data) ==
  [i \in DOMAIN r |-> IF r[i].id = id THEN data ELSE r[i]]

\* r.filter((x) => x.id !== id)
OptimisticDelete(r, id) == SelectSeq(r, LAMBDA x : x.id # id)

\* setRows(prev)                                          (delete failed)
RollbackDeleteKeep(r, prev) == r
RollbackDelete(r, prev) == prev

\* ------------------------------------------------------- remote store
\* Row-level security: a caller sees and changes only its own rows.
Visible(tbl, uid) == {r \in tbl : r.user_id = uid}

\* Column rpe is an int: the store refuses a payload whose rpe is not whole.
WorkoutTaken(clean) == clean.rpe.k # "half"

\* .insert({ ...clean, user_id }).select().single(): the stored row.
\* A key whose value is undefined is not sent, so the column is NULL.
InsertedWorkout(clean, id, uid) ==
  [clean EXCEPT !.id = id, !.user_id = uid,
                !.rpe = IF clean.rpe = Undefined THEN Null ELSE clean.rpe]

InsertedComp(clean, id, uid) == [clean EXCEPT !.id = id, !.user_id = uid]

\* .update(updated).eq("id", id): keys that are undefined are not sent.
UpdatedWorkoutRow(r, updated) ==
  [updated EXCEPT !.id = r.id,
                  !.user_id = IF updated.user_id = NoUser THEN r.user_id ELSE updated.user_id,
                  !.rpe = IF updated.rpe = Undefined THEN r.rpe ELSE updated.rpe]

UpdatedCompRow(r, updated) ==
  [updated EXCEPT !.id = r.id,
                  !.user_id = IF updated.user_id = NoUser THEN r.user_id ELSE updated.user_id]

RemoteUpdateWorkout(tbl, id, uid, updated) ==
  {IF r.id = id /\ r.user_id = uid THEN UpdatedWorkoutRow(r, updated) ELSE r : r \in tbl}

RemoteUpdateComp(tbl, id, uid, updated) ==
  {IF r.id = id /\ r.user_id = uid THEN UpdatedCompRow(r, updated) ELSE r : r \in tbl}

RemoteDelete(tbl, id, uid) == {r \in tbl : ~(r.id = id /\ r.user_id = uid)}

\* .order("date", { ascending: false }).limit(500): every order the store may
\* return (rows of one date come in any order), cut at the limit.
FetchLimit == 500

IsDateDesc(s) == \A i, j \in DOMAIN s : i < j => s[i].date >= s[j].date

Take(s, n) == IF Len(s) <= n THEN s ELSE SubSeq(s, 1, n)

\* The one date-descending order of rows that differ in date.
SortedByDate(S) ==
  LET dates == {r.date : r \in S}
      Place(rank) ==
        [i \in 1..Cardinality(S) |-> CHOOSE r \in S : rank[r.date] = i - 1]
  IN  CHOOSE s \in {Place(rank) :
                      rank \in {[d \in dates |-> Cardinality({e \in dates : e > d})]}} :
        TRUE

\* select("*").order("date", desc).limit(500): every order the store can
\* give (rows of one date are in no defined order), cut at the limit.
SelectDateDesc(S) ==
  IF Cardinality({r.date : r \in S}) = Cardinality(S)
  THEN {Take(SortedByDate(S), FetchLimit)}
  ELSE {Take(s, FetchLimit) :
          s \in {t \in [1..Cardinality(S) -> S] :
                   /\ \A i, j \in 1..Cardinality(S) : i # j => t[i] # t[j]
                   /\ IsDateDesc(t)}}

\* ------------------------------------------------- personal_bests view
\* select distinct on (user_id, stroke, distance_m) ... order by user_id,
\* stroke, distance_m, time_sec asc, date asc: the first row of each group.
PBKey(r) == <<r.user_id, r.stroke, r.distance_m>>

PBGroup(tbl, k) == {r \in tbl : PBKey(r) = k}

\* The rows of a group that can come first in the view's order: rows equal in
\* time_sec and date are in no defined order.
PBFirstLatestDate(tbl, k) ==
  {r \in PBGroup(tbl, k) :
     \A o \in PBGroup(tbl, k) :
        r.time_sec < o.time_sec \/ (r.time_sec = o.time_sec /\ r.date >= o.date)}
PBFirst(tbl, k) ==
  {r \in PBGroup(tbl, k) :
     \A o \in PBGroup(tbl, k) :
        r.time_sec < o.time_sec \/ (r.time_sec = o.time_sec /\ r.date <= o.date)}

\* The view's select list.
PBRow(r) ==
  [user_id |-> r.user_id, stroke |-> r.stroke, distance_m |-> r.distance_m,
   time_sec |-> r.time_sec, date |-> r.date, meet |-> r.meet]

\* Every content the view can have over a competitions table.
PersonalBests(tbl) ==
  LET keys == {PBKey(r) : r \in tbl}
  IN  {{PBRow(f[k]) : k \in keys} :
         f \in {g \in [keys -> tbl] : \A k \in keys : g[k] \in PBFirst(tbl, k)}}

\* supabase.from("personal_bests").select("*") as user uid. A view runs with
\* its owner's rights unless created security_invoker, so whether the
\* competitions policy filters its rows depends on the deployment: both.
SelectPersonalBests(tbl, uid) == PersonalBests(tbl) \cup PersonalBests(Visible(tbl, uid))

\* ------------------------------------------------------------ CSV text
\* A text is the sequence of its cells' strings and of the separators
\* between them.
Comma == [k |-> "sep", v |-> ","]
LF == [k |-> "sep", v |-> "\n"]
CRLF == [k |-> "sep", v |-> "\r\n"]

\* s.toLowerCase(), on the header names a file can spell.
LowerCase(s) ==
  CASE s = "Date" -> "date"
    [] s = "DATE" -> "date"
    [] s = "Distance" -> "distance"
    [] s = "Distance_M" -> "distance_m"
    [] s = "Duration" -> "duration"
    [] s = "Duration_Min" -> "duration_min"
    [] s = "STROKE" -> "stroke"
    [] s = "Stroke" -> "stroke"
    [] s = "RPE" -> "rpe"
    [] s = "Notes" -> "notes"
    [] OTHER -> s

ToLowerCaseNot(x) == x
ToLowerCase(x) == IF x.k = "str" THEN Str(LowerCase(x.v)) ELSE x

\* s.split(sep): the pieces between the separators, one more than there are
\* separators.
RECURSIVE SplitOn(_, _)
SplitOn(s, seps) ==
  IF \A i \in DOMAIN s : s[i] \notin seps
  THEN <<s>>
  ELSE LET i == CHOOSE i \in DOMAIN s :
                   s[i] \in seps /\ \A j \in 1..(i - 1) : s[j] \notin seps
       IN  <<SubSeq(s, 1, i - 1)>> \o SplitOn(SubSeq(s, i + 1, Len(s)), seps)

\* The string of a piece: empty, or the one string between two separators.
CellOf(piece) == IF piece = <<>> THEN Str("") ELSE piece[1]

\* line.split(",")
Cells(line) ==
  LET parts == SplitOn(line, {Comma})
  IN  [i \in DOMAIN parts |-> CellOf(parts[i])]

\* header.indexOf(name), counted from 1; 0 for the source's -1.
IndexOf(header, name) ==
  IF \E i \in DOMAIN header : header[i] = name
  THEN CHOOSE i \in DOMAIN header :
         header[i] = name /\ \A j \in 1..(i - 1) : header[j] # name
  ELSE 0

\* cols[idx(name)]: undefined when the header has no such column or the
\* line is short.
Col(header, cols, name) ==
  LET i == IndexOf(header, Str(name))
  IN  IF i = 0 \/ i > Len(cols) THEN Undefined ELSE cols[i]

\* x?.trim()
TrimOpt(x) == IF x = Undefined THEN Undefined ELSE Trim(x)

\* The object parseCSV pushes for one line.
ParsedRow(header, cols) ==
  [date |-> TrimOpt(Col(header, cols, "date")),
   distance_m |-> OrElse(Col(header, cols, "distance_m"),
                         OrElse(Col(header, cols, "distance"), Num(0))),
   duration_min |-> OrElse(Col(header, cols, "duration_min"),
                           OrElse(Col(header, cols, "duration"), Num(0))),
   stroke |-> OrElse(TrimOpt(Col(header, cols, "stroke")), Str("Free")),
   rpe |-> OrElse(Col(header, cols, "rpe"), Null),
   notes |-> OrElse(TrimOpt(Col(header, cols, "notes")), Str(""))]

\* parseCSV(text)
parseCSVAllLines(text) ==
  LET lines == SelectSeq(SplitOn(text, {LF, CRLF}), LAMBDA l : l # <<>>)
  IN  IF lines = <<>>
      THEN <<>>
      ELSE LET cells == Cells(lines[1])
               header == [i \in DOMAIN cells |-> ToLowerCase(Trim(cells[i]))]
           IN  [i \in 1..Len(lines) |-> ParsedRow(header, Cells(lines[i]))]
parseCSV(text) ==
  LET lines == SelectSeq(SplitOn(text, {LF, CRLF}), LAMBDA l : l # <<>>)
  IN  IF lines = <<>>
      THEN <<>>
      ELSE LET cells == Cells(lines[1])
               header == [i \in DOMAIN cells |-> ToLowerCase(Trim(cells[i]))]
           IN  [i \in 1..(Len(lines) - 1) |-> ParsedRow(header, Cells(lines[i + 1]))]

\* ---------------------------------------------------------- CSV import
ImportBatch == 500

StrokeNames == {"Free", "Back", "Breast", "Fly", "IM", "Drill"}

\* One element of 'cleaned' of the import's onRows, for caller uid.
importClean(r, uid) ==
  [date |-> IF r.date \in {Undefined, Null} THEN DateStr(Today) ELSE r.date,
   distance_m |-> MathMax(Num(0), OrElse(Number(r.distance_m), Num(0))),
   duration_min |-> MathMax(Num(0), OrElse(Number(r.duration_min), Num(0))),
   stroke |-> IF r.stroke.k = "str" /\ r.stroke.v \in StrokeNames
              THEN r.stroke ELSE Str("Free"),
   rpe |-> IF Truthy(r.rpe)
           THEN MathMin(Num(10), MathMax(Num(1), Number(r.rpe)))
           ELSE Null,
   notes |-> IF r.notes \in {Undefined, Null} THEN Null ELSE r.notes,
   user_id |-> uid]

\* cleaned.slice(i, i + 500)
BatchOfRest(cleaned, i) == SubSeq(cleaned, i + 1, Len(cleaned))
BatchOf(cleaned, i) ==
  SubSeq(cleaned, i + 1, IF i + ImportBatch < Len(cleaned) THEN i + ImportBatch
                         ELSE Len(cleaned))

\* The store takes a row whose date spells a date (column date is 'date not
\* null'); one bad row fails its batch.
ValidRow(c) == c.date.k = "datestr" /\ WorkoutTaken(c)
ValidBatch(batch) == \A j \in DOMAIN batch : ValidRow(batch[j])

\* The row the store keeps for an imported element (NaN is sent as null; the
\* notes parseCSV gives are always a string).
ImportedRow(c, id) ==
  [id |-> id, user_id |-> c.user_id, date |-> c.date.v, distance_m |-> c.distance_m.v,
   duration_min |-> c.duration_min.v, stroke |-> c.stroke.v,
   rpe |-> IF c.rpe.k = "num" THEN c.rpe ELSE Null,
   notes |-> c.notes.v]

\* ------------------------------------------------------- training table
\* A string as the sequence of its characters.
Spell(s) ==
  CASE s = "" -> <<>>
    [] s = "Free" -> <<"F", "r", "e", "e">>
    [] s = "Back" -> <<"B", "a", "c", "k">>
    [] s = "Breast" -> <<"B", "r", "e", "a", "s", "t">>
    [] s = "Fly" -> <<"F", "l", "y">>
    [] s = "IM" -> <<"I", "M">>
    [] s = "Drill" -> <<"D", "r", "i", "l", "l">>
    [] s = "easy" -> <<"e", "a", "s", "y">>
    [] s = "kick" -> <<"k", "i", "c", "k">>
    [] s = "steady" -> <<"s", "t", "e", "a", "d", "y">>
    [] s = "long" -> <<"l", "o", "n", "g">>
    [] s = "fly set" -> <<"f", "l", "y", " ", "s", "e", "t">>
    [] s = "Hard 25s" -> <<"H", "a", "r", "d", " ", "2", "5", "s">>

Capitals ==
  <<"A", "B", "C", "D", "E", "F", "G", "H", "I", "J", "K", "L", "M", "N", "O", "P",
    "Q", "R", "S", "T", "U", "V", "W", "X", "Y", "Z">>
Smalls ==
  <<"a", "b", "c", "d", "e", "f", "g", "h", "i", "j", "k", "l", "m", "n", "o", "p",
    "q", "r", "s", "t", "u", "v", "w", "x", "y", "z">>

\* s.toLowerCase(), character by character.
LowerChar(c) ==
  IF \E i \in DOMAIN Capitals : Capitals[i] = c
  THEN Smalls[CHOOSE i \in DOMAIN Capitals : Capitals[i] = c]
  ELSE c
LowerStrNot(s) == s
LowerStr(s) == [i \in DOMAIN s |-> LowerChar(s[i])]

\* s.trim(), on characters.
TrimChars(s) ==
  LET inked == {i \in DOMAIN s : s[i] # " "}
  IN  IF inked = {} THEN <<>>
      ELSE SubSeq(s, CHOOSE i \in inked : \A j \in inked : i <= j,
                     CHOOSE i \in inked : \A j \in inked : i >= j)

\* s.includes(q)
Includes(s, q) == \E i \in 0..(Len(s) - Len(q)) : SubSeq(s, i + 1, i + Len(q)) = q

DigitChars == <<"0", "1", "2", "3", "4", "5", "6", "7", "8", "9">>

\* String(n) of a whole number that is not negative.
RECURSIVE StringOf(_)
StringOf(n) ==
  IF n < 10 THEN <<DigitChars[n + 1]>>
  ELSE Append(StringOf(n \div 10), DigitChars[(n % 10) + 1])

\* The yyyy-mm-dd string of a date.
DateChars(d) ==
  LET c == StringOf(d)
  IN  SubSeq(c, 1, 4) \o <<"-">> \o SubSeq(c, 5, 6) \o <<"-">> \o SubSeq(c, 7, 8)

PageSize == 50

\* base.slice(start, end)
Slice(base, start, end) ==
  SubSeq(base, start + 1, IF end < Len(base) THEN end ELSE Len(base))

\* The rows the table shows: useMemo 'filtered'.
filtered(rs, query, page) ==
  LET q == LowerStr(TrimChars(query))
      base == IF q = <<>>
              THEN rs
              ELSE SelectSeq(rs, LAMBDA r :
                     \/ Includes(DateChars(r.date), q)
                     \/ Includes(StringOf(r.distance_m), q)
                     \/ Includes(StringOf(r.duration_min), q)
                     \/ Includes(LowerStr(Spell(r.stroke)), q)
                     \/ Includes(LowerStr(Spell(r.notes)), q))
      start == page * PageSize
  IN  Slice(base, start, start + PageSize)

\* --------------------------------------------------------------- state
VARIABLES
  session,      \* the signed-in user's id, or NoUser            (useState session)
  rows,         \* held workouts                                   (useState rows)
  comps,        \* held competitions                               (useState comps)
  pbs,          \* held personal bests                             (useState pbs)
  editingId,    \* id of the workout in the form, or NoId
  draft,        \* the training form as edit / reset left it
  ceditingId,   \* id of the competition in the form, or NoId
  cdraft,       \* the competition form as edit / reset left it
  dbWorkouts,   \* remote table workouts
  dbComps,      \* remote table competitions
  pending,      \* handlers suspended at their remote call, with their closures
  fetches,      \* fetchAll calls suspended at Promise.all, with their responses
  pbTimers,     \* setTimeout(() => refreshPBs(), 250) not yet fired
  pbReads,      \* refreshPBs calls suspended at their select, with their responses
  nextId,       \* next id the store assigns (gen_random_uuid)
  nextTmp,      \* next id crypto.randomUUID gives
  nOps,         \* state-changing clicks on the forms and tables so far
  nAuth,        \* auth events so far
  scope,        \* the collection whose handlers this behaviour exercises
  imp,          \* the CSV import: its closure at the batch insert it awaits
  ui,           \* the table's page and search box       (useState page, search, query)
  last          \* the step just taken: handler, outcome, closure, alert shown

vars ==
  <<session, rows, comps, pbs, editingId, draft, ceditingId, cdraft, dbWorkouts,
    dbComps, pending, fetches, pbTimers, pbReads, nextId, nextTmp, nOps, nAuth, scope,
    imp, ui, last>>

\* The closure of a handler suspended at its remote call. pre and post are
\* the collection as it was when the handler was invoked and as the handler's
\* optimistic update left it (history only: no handler reads them).
Op(n, tbl, kind, id, uid, prev, prevList, clean, pre, post) ==
  [n |-> n, tbl |-> tbl, kind |-> kind, id |-> id, uid |-> uid, prev |-> prev,
   prevList |-> prevList, clean |-> clean, pre |-> pre, post |-> post]

NoOp == Op(0, "none", "none", NoId, NoUser, UndefinedRec, <<>>, UndefinedRec, <<>>, <<>>)

Step(ev, res, op, alert) == [ev |-> ev, res |-> res, op |-> op, alert |-> alert]

NoAlert == "none"
SignInAlert == "Please sign in first."
ErrorAlert == "error.message"

\* The table on its first page, nothing typed in the search box.
\* timer is the debounce timer: set or not, and the input it was set with.
NoTimer == [set |-> FALSE, text |-> <<>>]
NoSearch == [page |-> 0, search |-> <<>>, query |-> <<>>, timer |-> NoTimer]

NoRowsAlert == "No rows found. Ensure your CSV has a header row."

\* No file read yet. auth is the user the batch insert in flight was sent as;
\* text, and sent (the batch inserts answered so far), are history only.
NoImport ==
  [phase |-> "none", text |-> <<>>, cleaned |-> <<>>, i |-> 0, auth |-> NoUser,
   sent |-> <<>>]

\* The remote store when the app starts: one workout and one competition of u1.
InitWorkouts ==
  { [id |-> SrvId(1), user_id |-> "u1", date |-> 20240401, distance_m |-> 1000,
     duration_min |-> 20, stroke |-> "Back", rpe |-> Num(4), notes |-> "easy"] }

InitComps ==
  { [id |-> SrvId(2), user_id |-> "u1", date |-> 20240115, meet |-> "A",
     distance_m |-> 50, stroke |-> "Free", time_sec |-> 2810] }

Init ==
  /\ session = NoUser
  /\ rows = <<>>
  /\ comps = <<>>
  /\ pbs = {}
  /\ editingId = NoId
  /\ draft = emptyWorkout
  /\ ceditingId = NoId
  /\ cdraft = emptyComp
  /\ dbWorkouts = InitWorkouts
  /\ dbComps = InitComps
  /\ pending = {}
  /\ fetches = {}
  /\ pbTimers = 0
  /\ pbReads = {}
  /\ nextId = 3
  /\ nextTmp = 1
  /\ nOps = 0
  /\ nAuth = 0
  /\ scope \in {"workouts", "competitions"}
  /\ imp = NoImport
  /\ ui = NoSearch
  /\ last = Step("init", "none", NoOp, NoAlert)

\* ------------------------------------------------------ auth and fetch
\* What the three selects of fetchAll can read for caller uid.
FetchAllResponses(uid) ==
  {[w |-> w, c |-> c, p |-> p] :
     w \in SelectDateDesc(Visible(dbWorkouts, uid)),
     c \in SelectDateDesc(Visible(dbComps, uid)),
     p \in SelectPersonalBests(dbComps, uid)}

\* Which of the three selects answers with an error, if any.
FetchErrors == {"none", "workouts", "competitions", "personal_bests"}

\* onAuthStateChange with a session, no user signed in before; the effect on
\* [session] then calls fetchAll.
SignIn(u) ==
  /\ session = NoUser
  /\ nAuth < MaxAuth
  /\ session' = u
  /\ nAuth' = nAuth + 1
  /\ \E f \in FetchAllResponses(u) : fetches' = fetches \cup {f}
  /\ last' = Step("signIn", "none", NoOp, NoAlert)
  /\ UNCHANGED <<rows, comps, pbs, editingId, draft, ceditingId, cdraft, dbWorkouts,
                 dbComps, pending, pbTimers, pbReads, nextId, nextTmp, nOps>>

\* onAuthStateChange with a new session object of the same user (token
\* refreshed): the effect on [session] runs again.
TokenRefreshed ==
  /\ session # NoUser
  /\ nAuth < MaxAuth
  /\ nAuth' = nAuth + 1
  /\ \E f \in FetchAllResponses(session) : fetches' = fetches \cup {f}
  /\ last' = Step("tokenRefreshed", "none", NoOp, NoAlert)
  /\ UNCHANGED <<session, rows, comps, pbs, editingId, draft, ceditingId, cdraft,
                 dbWorkouts, dbComps, pending, pbTimers, pbReads, nextId, nextTmp, nOps>>

\* onAuthStateChange(null) without the Sign out button: the session ended.
SessionExpired ==
  /\ session # NoUser
  /\ nAuth < MaxAuth
  /\ session' = NoUser
  /\ nAuth' = nAuth + 1
  /\ last' = Step("sessionExpired", "none", NoOp, NoAlert)
  /\ UNCHANGED <<rows, comps, pbs, editingId, draft, ceditingId, cdraft, dbWorkouts,
                 dbComps, pending, fetches, pbTimers, pbReads, nextId, nextTmp, nOps>>

signOut ==
  /\ session # NoUser
  /\ nAuth < MaxAuth
  /\ session' = NoUser
  /\ nAuth' = nAuth + 1
  /\ rows' = <<>>
  /\ comps' = <<>>
  /\ pbs' = {}
  /\ last' = Step("signOut", "none", NoOp, NoAlert)
  /\ UNCHANGED <<editingId, draft, ceditingId, cdraft, dbWorkouts, dbComps, pending,
                 fetches, pbTimers, pbReads, nextId, nextTmp, nOps>>

\* fetchAll resumed after Promise.all: f is what the selects read, error the
\* select that failed.
\* The three checks made on the answers before anything is stored: error
\* names the read that failed, if one did.
ThrowsFirstOnly(error) == error = "workouts"
Throws(error) == error \in {"workouts", "competitions", "personal_bests"}

fetchAll(f, error) ==
  /\ f \in fetches
  /\ fetches' = fetches \ {f}
  /\ IF Throws(error)
     THEN /\ UNCHANGED <<rows, comps, pbs>>
          /\ last' = Step("fetchAll", IF error = "none" THEN "ok" ELSE "error", NoOp,
                          ErrorAlert)
     ELSE /\ rows' = f.w
          /\ comps' = f.c
          /\ pbs' = f.p
          /\ last' = Step("fetchAll", IF error = "none" THEN "ok" ELSE "error", NoOp,
                          NoAlert)
  /\ UNCHANGED <<session, editingId, draft, ceditingId, cdraft, dbWorkouts, dbComps,
                 pending, pbTimers, pbReads, nextId, nextTmp, nOps, nAuth>>

\* ----------------------------------------------------------- workouts
\* The calls in flight once the call of op is answered: the handler runs on
\* from its await, to its end, and the call is not sent again.
AnsweredNot(p, op) == p
Answered(p, op) == p \ {op}

\* The forms the user can submit: the form after edit / reset, retyped.
WorkoutForms == {TypedWorkout(draft, inp) : inp \in WInputs}

editWorkout(id) ==
  /\ nOps < MaxOps
  /\ nOps' = nOps + 1
  /\ HasId(rows, id)
  /\ editingId' = id
  /\ draft' = WorkoutToDraft(FindById(rows, id))
  /\ last' = Step("editWorkout", "none", NoOp, NoAlert)
  /\ UNCHANGED <<session, rows, comps, pbs, ceditingId, cdraft, dbWorkouts, dbComps,
                 pending, fetches, pbTimers, pbReads, nextId, nextTmp, nAuth>>

\* The Cancel button of the training form (rendered while editing).
cancelEditWorkout ==
  /\ nOps < MaxOps
  /\ nOps' = nOps + 1
  /\ editingId # NoId
  /\ editingId' = NoId
  /\ draft' = emptyWorkout
  /\ last' = Step("cancelEditWorkout", "none", NoOp, NoAlert)
  /\ UNCHANGED <<session, rows, comps, pbs, ceditingId, cdraft, dbWorkouts, dbComps,
                 pending, fetches, pbTimers, pbReads, nextId, nextTmp, nAuth>>

\* saveWorkout up to its await.
saveWorkout(d) ==
  LET clean == cleanWorkout(d)
      updated == [clean EXCEPT !.id = editingId]
      optimistic == [clean EXCEPT !.id = TmpId(nextTmp)]
  IN
  /\ nOps < MaxOps
  /\ IF session = NoUser
     THEN /\ last' = Step("saveWorkout", "rejected", NoOp, SignInAlert)
          /\ UNCHANGED <<rows, pending, nextTmp, nOps>>
     ELSE IF editingId # NoId
     THEN LET op == Op(nOps + 1, "workouts", "update", editingId, session,
                       FindById(rows, editingId), <<>>, updated, rows,
                       OptimisticUpdate(rows, editingId, updated))
          IN  /\ rows' = OptimisticUpdate(rows, editingId, updated)
              /\ pending' = pending \cup {op}
              /\ nOps' = nOps + 1
              /\ last' = Step("saveWorkout", "issued", op, NoAlert)
              /\ UNCHANGED nextTmp
     ELSE LET op == Op(nOps + 1, "workouts", "insert", optimistic.id, session,
                       UndefinedRec, <<>>, clean, rows, OptimisticInsert(rows, optimistic))
          IN  /\ rows' = OptimisticInsert(rows, optimistic)
              /\ pending' = pending \cup {op}
              /\ nOps' = nOps + 1
              /\ nextTmp' = nextTmp + 1
              /\ last' = Step("saveWorkout", "issued", op, NoAlert)
  /\ UNCHANGED <<session, comps, pbs, editingId, draft, ceditingId, cdraft, dbWorkouts,
                 dbComps, fetches, pbTimers, pbReads, nextId, nAuth>>

\* saveWorkout resumed with the store's answer (error or not).
saveWorkoutResume(op, error) ==
  /\ op \in pending
  /\ op.tbl = "workouts"
  /\ op.kind \in {"update", "insert"}
  /\ ~error => WorkoutTaken(op.clean)
  /\ pending' = Answered(pending, op)
  /\ IF op.kind = "update"
     THEN IF error
          THEN /\ rows' = RollbackUpdate(rows, op.id, op.prev)
               /\ UNCHANGED <<dbWorkouts, nextId>>
          ELSE /\ dbWorkouts' = RemoteUpdateWorkout(dbWorkouts, op.id, op.uid, op.clean)
               /\ UNCHANGED <<rows, nextId>>
     ELSE IF error
          THEN /\ rows' = RollbackInsert(rows, op.id)
               /\ UNCHANGED <<dbWorkouts, nextId>>
          ELSE LET data == InsertedWorkout(op.clean, SrvId(nextId), op.uid)
               IN  /\ dbWorkouts' = dbWorkouts \cup {data}
                   /\ nextId' = nextId + 1
                   /\ rows' = ConfirmInsert(rows, op.id, data)
  /\ editingId' = NoId
  /\ draft' = emptyWorkout
  /\ last' = Step("saveWorkoutResume", IF error THEN "error" ELSE "ok", op,
                  IF error THEN ErrorAlert ELSE NoAlert)
  /\ UNCHANGED <<session, comps, pbs, ceditingId, cdraft, dbComps, fetches, pbTimers,
                 pbReads, nextTmp, nOps, nAuth>>

\* deleteWorkout up to its await; confirmed is the answer to confirm().
deleteWorkoutUnconfirmed(id, confirmed) ==
  LET op == Op(nOps + 1, "workouts", "delete", id, session, UndefinedRec, rows,
               UndefinedRec, rows, OptimisticDelete(rows, id))
  IN  /\ nOps < MaxOps
      /\ rows' = OptimisticDelete(rows, id)
      /\ pending' = pending \cup {op}
      /\ nOps' = nOps + 1
      /\ last' = Step("deleteWorkout", IF confirmed THEN "issued" ELSE "declined", op, NoAlert)
      /\ UNCHANGED <<session, comps, pbs, editingId, draft, ceditingId, cdraft,
                     dbWorkouts, dbComps, fetches, pbTimers, pbReads, nextId, nextTmp, nAuth>>
deleteWorkout(id, confirmed) ==
  LET op == Op(nOps + 1, "workouts", "delete", id, session, UndefinedRec, rows,
               UndefinedRec, rows, OptimisticDelete(rows, id))
  IN  /\ nOps < MaxOps
      /\ IF ~confirmed
         THEN /\ last' = Step("deleteWorkout", "declined", NoOp, NoAlert)
              /\ UNCHANGED <<rows, pending, nOps>>
         ELSE /\ rows' = OptimisticDelete(rows, id)
              /\ pending' = pending \cup {op}
              /\ nOps' = nOps + 1
              /\ last' = Step("deleteWorkout", "issued", op, NoAlert)
      /\ UNCHANGED <<session, comps, pbs, editingId, draft, ceditingId, cdraft,
                     dbWorkouts, dbComps, fetches, pbTimers, pbReads, nextId, nextTmp, nAuth>>

\* deleteWorkout resumed with the store's answer.
deleteWorkoutResume(op, error) ==
  /\ op \in pending
  /\ op.tbl = "workouts"
  /\ op.kind = "delete"
  /\ pending' = Answered(pending, op)
  /\ IF error
     THEN /\ rows' = RollbackDelete(rows, op.prevList)
          /\ UNCHANGED dbWorkouts
     ELSE /\ dbWorkouts' = RemoteDelete(dbWorkouts, op.id, op.uid)
          /\ UNCHANGED rows
  /\ last' = Step("deleteWorkoutResume", IF error THEN "error" ELSE "ok", op,
                  IF error THEN ErrorAlert ELSE NoAlert)
  /\ UNCHANGED <<session, comps, pbs, editingId, draft, ceditingId, cdraft, dbComps,
                 fetches, pbTimers, pbReads, nextId, nextTmp, nOps, nAuth>>

\* ------------------------------------------------------- competitions
CompForms == {TypedComp(cdraft, inp) : inp \in CInputs}

editCompetition(id) ==
  /\ nOps < MaxOps
  /\ nOps' = nOps + 1
  /\ HasId(comps, id)
  /\ ceditingId' = id
  /\ cdraft' = CompToDraft(FindById(comps, id))
  /\ last' = Step("editCompetition", "none", NoOp, NoAlert)
  /\ UNCHANGED <<session, rows, comps, pbs, editingId, draft, dbWorkouts, dbComps,
                 pending, fetches, pbTimers, pbReads, nextId, nextTmp, nAuth>>

\* The Cancel button of the competition form (rendered while editing).
cancelEditCompetition ==
  /\ nOps < MaxOps
  /\ nOps' = nOps + 1
  /\ ceditingId # NoId
  /\ ceditingId' = NoId
  /\ cdraft' = emptyComp
  /\ last' = Step("cancelEditCompetition", "none", NoOp, NoAlert)
  /\ UNCHANGED <<session, rows, comps, pbs, editingId, draft, dbWorkouts, dbComps,
                 pending, fetches, pbTimers, pbReads, nextId, nextTmp, nAuth>>

\* saveCompetition up to its await.
saveCompetition(d) ==
  LET clean == cleanComp(d)
      updated == [clean EXCEPT !.id = ceditingId]
      optimistic == [clean EXCEPT !.id = TmpId(nextTmp)]
  IN
  /\ nOps < MaxOps
  /\ IF session = NoUser
     THEN /\ last' = Step("saveCompetition", "rejected", NoOp, SignInAlert)
          /\ UNCHANGED <<comps, pending, nextTmp, nOps>>
     ELSE IF ceditingId # NoId
     THEN LET op == Op(nOps + 1, "competitions", "update", ceditingId, session,
                       FindById(comps, ceditingId), <<>>, updated, comps,
                       OptimisticUpdate(comps, ceditingId, updated))
          IN  /\ comps' = OptimisticUpdate(comps, ceditingId, updated)
              /\ pending' = pending \cup {op}
              /\ nOps' = nOps + 1
              /\ last' = Step("saveCompetition", "issued", op, NoAlert)
              /\ UNCHANGED nextTmp
     ELSE LET op == Op(nOps + 1, "competitions", "insert", optimistic.id, session,
                       UndefinedRec, <<>>, clean, comps, OptimisticInsert(comps, optimistic))
          IN  /\ comps' = OptimisticInsert(comps, optimistic)
              /\ pending' = pending \cup {op}
              /\ nOps' = nOps + 1
              /\ nextTmp' = nextTmp + 1
              /\ last' = Step("saveCompetition", "issued", op, NoAlert)
  /\ UNCHANGED <<session, rows, pbs, editingId, draft, ceditingId, cdraft, dbWorkouts,
                 dbComps, fetches, pbTimers, pbReads, nextId, nAuth>>

\* setTimeout(() => refreshPBs(), 250): one more refreshPBs timer is set.
ScheduleRefreshDropped(t) == t
ScheduleRefresh(t) == t + 1

\* saveCompetition resumed with the store's answer; it ends by scheduling
\* refreshPBs.
saveCompetitionResume(op, error) ==
  /\ op \in pending
  /\ op.tbl = "competitions"
  /\ op.kind \in {"update", "insert"}
  /\ pending' = Answered(pending, op)
  /\ IF op.kind = "update"
     THEN IF error
          THEN /\ comps' = RollbackUpdate(comps, op.id, op.prev)
               /\ UNCHANGED <<dbComps, nextId>>
          ELSE /\ dbComps' = RemoteUpdateComp(dbComps, op.id, op.uid, op.clean)
               /\ UNCHANGED <<comps, nextId>>
     ELSE IF error
          THEN /\ comps' = RollbackInsert(comps, op.id)
               /\ UNCHANGED <<dbComps, nextId>>
          ELSE LET data == InsertedComp(op.clean, SrvId(nextId), op.uid)
               IN  /\ dbComps' = dbComps \cup {data}
                   /\ nextId' = nextId + 1
                   /\ comps' = ConfirmInsert(comps, op.id, data)
  /\ ceditingId' = NoId
  /\ cdraft' = emptyComp
  /\ pbTimers' = ScheduleRefresh(pbTimers)
  /\ last' = Step("saveCompetitionResume", IF error THEN "error" ELSE "ok", op,
                  IF error THEN ErrorAlert ELSE NoAlert)
  /\ UNCHANGED <<session, rows, pbs, editingId, draft, dbWorkouts, fetches, pbReads,
                 nextTmp, nOps, nAuth>>

\* deleteCompetition up to its await; confirmed is the answer to confirm().
deleteCompetition(id, confirmed) ==
  LET op == Op(nOps + 1, "competitions", "delete", id, session, UndefinedRec, comps,
               UndefinedRec, comps, OptimisticDelete(comps, id))
  IN  /\ nOps < MaxOps
      /\ IF ~confirmed
         THEN /\ last' = Step("deleteCompetition", "declined", NoOp, NoAlert)
              /\ UNCHANGED <<comps, pending, nOps>>
         ELSE /\ comps' = OptimisticDelete(comps, id)
              /\ pending' = pending \cup {op}
              /\ nOps' = nOps + 1
              /\ last' = Step("deleteCompetition", "issued", op, NoAlert)
      /\ UNCHANGED <<session, rows, pbs, editingId, draft, ceditingId, cdraft, dbWorkouts,
                     dbComps, fetches, pbTimers, pbReads, nextId, nextTmp, nAuth>>

\* deleteCompetition resumed with the store's answer; it ends by scheduling
\* refreshPBs.
deleteCompetitionResume(op, error) ==
  /\ op \in pending
  /\ op.tbl = "competitions"
  /\ op.kind = "delete"
  /\ pending' = Answered(pending, op)
  /\ IF error
     THEN /\ comps' = RollbackDelete(comps, op.prevList)
          /\ UNCHANGED dbComps
     ELSE /\ dbComps' = RemoteDelete(dbComps, op.id, op.uid)
          /\ UNCHANGED comps
  /\ pbTimers' = ScheduleRefresh(pbTimers)
  /\ last' = Step("deleteCompetitionResume", IF error THEN "error" ELSE "ok", op,
                  IF error THEN ErrorAlert ELSE NoAlert)
  /\ UNCHANGED <<session, rows, pbs, editingId, draft, ceditingId, cdraft, dbWorkouts,
                 fetches, pbReads, nextId, nextTmp, nOps, nAuth>>

\* A refreshPBs timer fires: the select is sent and read by the store.
refreshPBs ==
  /\ pbTimers > 0
  /\ pbTimers' = pbTimers - 1
  /\ \E data \in SelectPersonalBests(dbComps, session) : pbReads' = pbReads \cup {data}
  /\ last' = Step("refreshPBs", "issued", NoOp, NoAlert)
  /\ UNCHANGED <<session, rows, comps, pbs, editingId, draft, ceditingId, cdraft,
                 dbWorkouts, dbComps, pending, fetches, nextId, nextTmp, nOps, nAuth>>

\* refreshPBs resumed with the answer: if (!error) setPBs(data).
refreshPBsResume(data, error) ==
  /\ data \in pbReads
  /\ pbReads' = pbReads \ {data}
  /\ pbs' = IF ~error THEN data ELSE pbs
  /\ last' = Step("refreshPBsResume", IF error THEN "error" ELSE "ok", NoOp, NoAlert)
  /\ UNCHANGED <<session, rows, comps, editingId, draft, ceditingId, cdraft, dbWorkouts,
                 dbComps, pending, fetches, pbTimers, nextId, nextTmp, nOps, nAuth>>

\* ------------------------------------------------------- import inputs
\* Rows of the long file.
LongLen == 501

\* cells.join(","): the cells' strings with commas between them (an empty
\* cell has no string).
Join(cells) ==
  SelectSeq([i \in 1..(2 * Len(cells) - 1) |->
               IF i % 2 = 1 THEN cells[(i + 1) \div 2] ELSE Comma],
            LAMBDA x : x # Str(""))

ColumnNames == <<"date", "distance_m", "duration_min", "stroke", "rpe", "notes">>

\* The spec's example row, by column.
ExampleValues ==
  [date |-> DateStr(20240501), distance_m |-> NumStr(1500),
   duration_min |-> NumStr(25), stroke |-> Str("Free"), rpe |-> NumStr(6),
   notes |-> Str("steady")]

\* Orders of the columns in a file.
ColumnOrders ==
  { <<1, 2, 3, 4, 5, 6>>, <<6, 5, 4, 3, 2, 1>>, <<4, 1, 6, 2, 5, 3>> }

\* How a file spells its header and cells: as the export writes them, in
\* capitals, or with the short names and white space around every cell.
Styles == {"plain", "capitals", "short"}

HeaderCell(style, c) ==
  CASE style = "plain" -> Str(c)
    [] style = "capitals" ->
         Str(CASE c = "date" -> "DATE" [] c = "distance_m" -> "Distance_M"
               [] c = "duration_min" -> "Duration_Min" [] c = "stroke" -> "STROKE"
               [] c = "rpe" -> "RPE" [] c = "notes" -> "Notes")
    [] style = "short" ->
         Padded(Str(CASE c = "date" -> "Date" [] c = "distance_m" -> "distance"
                      [] c = "duration_min" -> "Duration" [] c = "stroke" -> "Stroke"
                      [] c = "rpe" -> "rpe" [] c = "notes" -> "Notes"))

ValueCell(style, v) == IF style = "short" THEN Padded(v) ELSE v

\* A file of one data row, the example's, after its header.
ExampleText(order, style, nl) ==
  Join([i \in 1..6 |-> HeaderCell(style, ColumnNames[order[i]])]) \o <<nl>> \o
  Join([i \in 1..6 |-> ValueCell(style, ExampleValues[ColumnNames[order[i]]])])

ExampleTexts ==
  {ExampleText(o, st, nl) : o \in ColumnOrders, st \in Styles, nl \in {LF, CRLF}}

HeaderText == Join([i \in 1..6 |-> Str(ColumnNames[i])])

\* Files with no data row: no text, blank lines only, a header only.
NoRowTexts ==
  { <<>>, <<LF, CRLF, LF>>, HeaderText, HeaderText \o <<CRLF>>, <<LF>> \o HeaderText \o <<LF, LF>> }

\* Files with odd rows: a line of one cell, a line whose date is empty, a
\* line of white space, a row with the effort 7.5, two rows with a blank line
\* between them.
OddTexts ==
  { HeaderText \o <<LF, DateStr(20240503)>>,
    HeaderText \o <<LF, Comma, NumStr(100), Comma, NumStr(5)>>,
    HeaderText \o <<LF, Padded(Str(""))>>,
    HeaderText \o <<LF, DateStr(20240506), Comma, NumStr(400), Comma, NumStr(9), Comma,
                    Str("Back"), Comma, HalfStr(7), Comma, Str("easy")>>,
    HeaderText \o <<LF, DateStr(20240504), Comma, NumStr(800), Comma, NumStr(16),
                    Comma, Str("fly"), Comma, NumStr(0), CRLF, CRLF,
                    DateStr(20240505), Comma, Str("far"), Comma, Comma, Str("IM"),
                    Comma, NumStr(11), Comma, Str("long"), LF>> }

ImportTexts == ExampleTexts \cup NoRowTexts \cup OddTexts

\* The date of day k, counted from 2022-01-01 (2022 and 2023 have 365 days).
DaysBefore == <<0, 31, 59, 90, 120, 151, 181, 212, 243, 273, 304, 334>>
DateOfDay(k) ==
  LET d == ((k - 1) % 365) + 1
      m == CHOOSE m \in 1..12 :
             DaysBefore[m] < d /\ (m = 12 \/ DaysBefore[m + 1] >= d)
  IN  (2022 + (k - 1) \div 365) * 10000 + m * 100 + (d - DaysBefore[m])

\* What parseCSV gives for a file of LongLen data rows, one for each day from
\* 2022-01-01 on.
LongRows ==
  [k \in 1..LongLen |->
     ParsedRow([i \in 1..6 |-> Str(ColumnNames[i])],
               <<DateStr(DateOfDay(k)), NumStr(1500), NumStr(25), Str("Free"),
                 NumStr(6), Str("steady")>>)]

\* ------------------------------------------------------------- import
\* One file is read in a behaviour.
\* onRows(data) up to its first await: the guard, cleaned, and the first
\* batch insert sent.
onRows(ev, text, data) ==
  IF session = NoUser
  THEN /\ imp' = [imp EXCEPT !.text = text]
       /\ last' = Step(ev, "rejected", NoOp, SignInAlert)
  ELSE /\ imp' = [phase |-> "running", text |-> text,
                  cleaned |-> [j \in DOMAIN data |-> importClean(data[j], session)],
                  i |-> 0, auth |-> session, sent |-> <<>>]
       /\ last' = Step(ev, "issued", NoOp, NoAlert)

\* The file reader's onload on a text: parseCSV, then the alert or onRows.
importOnload(text) ==
  /\ imp.phase = "none"
  /\ IF parseCSV(text) = <<>>
     THEN /\ imp' = [imp EXCEPT !.text = text]
          /\ last' = Step("onload", "norows", NoOp, NoRowsAlert)
     ELSE onRows("onload", text, parseCSV(text))
  /\ UNCHANGED <<session, rows, comps, pbs, editingId, draft, ceditingId, cdraft,
                 dbWorkouts, dbComps, pending, fetches, pbTimers, pbReads, nextId,
                 nextTmp, nOps, nAuth, scope, ui>>

\* onRows called with the rows of a file too long to spell out here.
importLongRows(data) ==
  /\ imp.phase = "none"
  /\ onRows("onRows", <<>>, data)
  /\ UNCHANGED <<session, rows, comps, pbs, editingId, draft, ceditingId, cdraft,
                 dbWorkouts, dbComps, pending, fetches, pbTimers, pbReads, nextId,
                 nextTmp, nOps, nAuth, scope, ui>>

\* await fetchAll() at the end of onRows: fetchAll runs to its Promise.all.
RelistSkipped(fs, f) == fs
Relist(fs, f) == fs \cup {f}

\* onRows resumed with the answer to a batch insert: on an error the alert
\* and break; else the next batch, or the end of the loop; after the loop,
\* fetchAll. The store refuses a batch with a row it cannot take, and rows
\* that are not the caller's own (row-level security).
importBatch(error) ==
  LET batch == BatchOf(imp.cleaned, imp.i)
      failed == \/ error
                \/ ~ValidBatch(batch)
                \/ \E j \in DOMAIN batch : batch[j].user_id # imp.auth
      more == ~failed /\ imp.i + ImportBatch < Len(imp.cleaned)
      entry == [from |-> imp.i + 1, to |-> imp.i + Len(batch), firstId |-> nextId,
                ok |-> ~failed]
  IN  /\ imp.phase = "running"
      /\ UNCHANGED <<session, rows, comps, pbs, editingId, draft, ceditingId, cdraft,
                     dbComps, pending, pbTimers, pbReads, nextTmp, nOps, nAuth, scope, ui>>
      /\ IF failed
         THEN UNCHANGED <<dbWorkouts, nextId>>
         ELSE /\ dbWorkouts' = dbWorkouts \cup
                    {ImportedRow(batch[j], SrvId(nextId + j - 1)) : j \in DOMAIN batch}
              /\ nextId' = nextId + Len(batch)
      /\ imp' = [imp EXCEPT !.phase = IF more THEN "running" ELSE "done",
                            !.i = IF failed THEN imp.i ELSE imp.i + ImportBatch,
                            !.auth = IF more THEN session ELSE NoUser,
                            !.sent = Append(imp.sent, entry)]
      /\ IF more
         THEN UNCHANGED fetches
         ELSE \E f \in FetchAllResponses(session)' : fetches' = Relist(fetches, f)
      /\ last' = Step("importBatch", IF failed THEN "error" ELSE "ok", NoOp,
                      IF failed THEN ErrorAlert ELSE NoAlert)

\* ------------------------------------------------- search and pagination
\* Pages the Next button is followed to.
MaxPage == 3

\* onChange of the search box.
\* The debounce effect after a render that sets the input to text: when the
\* input changed, the timer of the render before is cleared and one is set
\* that holds the new input.
DebounceEffectKept(u, text) ==
  IF text = u.search \/ u.timer.set THEN u
  ELSE [u EXCEPT !.timer = [set |-> TRUE, text |-> text]]
DebounceEffect(u, text) ==
  IF text = u.search THEN u
  ELSE [u EXCEPT !.timer = [set |-> TRUE, text |-> text]]

setSearch(text) ==
  /\ ui' = [DebounceEffect(ui, text) EXCEPT !.search = text]
  /\ last' = Step("setSearch", "none", NoOp, NoAlert)

\* The debounce timer, 250 ms after the last change of search.
debounceQuery ==
  /\ ui.timer.set
  /\ ui' = [ui EXCEPT !.query = ui.timer.text, !.timer = NoTimer]
  /\ last' = Step("setQuery", "none", NoOp, NoAlert)

\* The Clear button.
clearSearch ==
  /\ ui' = [DebounceEffect(ui, <<>>) EXCEPT !.search = <<>>, !.query = <<>>]
  /\ last' = Step("clearSearch", "none", NoOp, NoAlert)

\* The Prev button (disabled on the first page) and the Next button.
prevPage ==
  /\ ui.page # 0
  /\ ui' = [ui EXCEPT !.page = IF ui.page - 1 > 0 THEN ui.page - 1 ELSE 0]
  /\ last' = Step("prevPage", "none", NoOp, NoAlert)

nextPage ==
  /\ ui.page < MaxPage
  /\ ui' = [ui EXCEPT !.page = ui.page + 1]
  /\ last' = Step("nextPage", "none", NoOp, NoAlert)

\* ------------------------------------------------------- specification
RowIds == {rows[i].id : i \in DOMAIN rows}
CompIds == {comps[i].id : i \in DOMAIN comps}

\* A row that is undefined makes the render throw (r.id, r.distance_m of
\* undefined): the tree unmounts and no button or form is left to use.
Rendered ==
  UndefinedRec \notin {rows[i] : i \in DOMAIN rows} \cup {comps[i] : i \in DOMAIN comps}

\* The user's actions on the training form and table.
WorkoutEvents ==
  \/ \E id \in RowIds : editWorkout(id)
  \/ cancelEditWorkout
  \/ \E d \in WorkoutForms : saveWorkout(d)
  \/ \E id \in RowIds, confirmed \in BOOLEAN : deleteWorkout(id, confirmed)

\* The user's actions on the competition form and table.
CompEvents ==
  \/ \E id \in CompIds : editCompetition(id)
  \/ cancelEditCompetition
  \/ \E d \in CompForms : saveCompetition(d)
  \/ \E id \in CompIds, confirmed \in BOOLEAN : deleteCompetition(id, confirmed)

\* The two collections share no state in their handlers, so a behaviour
\* exercises the handlers of one of them (scope), chosen at the start.
Next ==
  \/ \E u \in Users : SignIn(u) /\ UNCHANGED <<scope, imp, ui>>
  \/ TokenRefreshed /\ UNCHANGED <<scope, imp, ui>>
  \/ SessionExpired /\ UNCHANGED <<scope, imp, ui>>
  \/ Rendered /\ signOut /\ UNCHANGED <<scope, imp, ui>>
  \/ \E f \in fetches, error \in FetchErrors : fetchAll(f, error) /\ UNCHANGED <<scope, imp, ui>>
  \/ Rendered /\ scope = "workouts" /\ WorkoutEvents /\ UNCHANGED <<scope, imp, ui>>
  \/ \E op \in pending, error \in BOOLEAN : saveWorkoutResume(op, error) /\ UNCHANGED <<scope, imp, ui>>
  \/ \E op \in pending, error \in BOOLEAN : deleteWorkoutResume(op, error) /\ UNCHANGED <<scope, imp, ui>>
  \/ Rendered /\ scope = "competitions" /\ CompEvents /\ UNCHANGED <<scope, imp, ui>>
  \/ \E op \in pending, error \in BOOLEAN : saveCompetitionResume(op, error) /\ UNCHANGED <<scope, imp, ui>>
  \/ \E op \in pending, error \in BOOLEAN : deleteCompetitionResume(op, error) /\ UNCHANGED <<scope, imp, ui>>
  \/ refreshPBs /\ UNCHANGED <<scope, imp, ui>>
  \/ \E data \in pbReads, error \in BOOLEAN : refreshPBsResume(data, error) /\ UNCHANGED <<scope, imp, ui>>

Spec == Init /\ [][Next]_vars

\* A signed-in, loaded session working on its results: timers fire (the
\* event loop runs every timer that is due).
InitLive ==
  /\ session = "u1"
  /\ dbWorkouts = InitWorkouts
  /\ dbComps = InitComps
  /\ rows \in SelectDateDesc(Visible(dbWorkouts, "u1"))
  /\ comps \in SelectDateDesc(Visible(dbComps, "u1"))
  /\ pbs \in SelectPersonalBests(dbComps, "u1")
  /\ editingId = NoId
  /\ draft = emptyWorkout
  /\ ceditingId = NoId
  /\ cdraft = emptyComp
  /\ pending = {}
  /\ fetches = {}
  /\ pbTimers = 0
  /\ pbReads = {}
  /\ nextId = 3
  /\ nextTmp = 1
  /\ nOps = 0
  /\ nAuth = 1
  /\ scope = "competitions"
  /\ imp = NoImport
  /\ ui = NoSearch
  /\ last = Step("fetchAll", "ok", NoOp, NoAlert)

NextLive ==
  \/ SessionExpired /\ UNCHANGED <<scope, imp, ui>>
  \/ Rendered /\ signOut /\ UNCHANGED <<scope, imp, ui>>
  \/ Rendered /\ CompEvents /\ UNCHANGED <<scope, imp, ui>>
  \/ \E op \in pending, error \in BOOLEAN : saveCompetitionResume(op, error) /\ UNCHANGED <<scope, imp, ui>>
  \/ \E op \in pending, error \in BOOLEAN : deleteCompetitionResume(op, error) /\ UNCHANGED <<scope, imp, ui>>
  \/ refreshPBs /\ UNCHANGED <<scope, imp, ui>>
  \/ \E data \in pbReads, error \in BOOLEAN : refreshPBsResume(data, error) /\ UNCHANGED <<scope, imp, ui>>

SpecLive == InitLive /\ [][NextLive]_vars /\ WF_vars(refreshPBs /\ UNCHANGED <<scope, imp, ui>>)

\* A signed-in, loaded session reading one file.
InitImport ==
  /\ session = "u1"
  /\ dbWorkouts = InitWorkouts
  /\ dbComps = InitComps
  /\ rows \in SelectDateDesc(Visible(dbWorkouts, "u1"))
  /\ comps \in SelectDateDesc(Visible(dbComps, "u1"))
  /\ pbs \in SelectPersonalBests(dbComps, "u1")
  /\ editingId = NoId
  /\ draft = emptyWorkout
  /\ ceditingId = NoId
  /\ cdraft = emptyComp
  /\ pending = {}
  /\ fetches = {}
  /\ pbTimers = 0
  /\ pbReads = {}
  /\ nextId = 3
  /\ nextTmp = 1
  /\ nOps = 0
  /\ nAuth = 1
  /\ scope = "workouts"
  /\ imp = NoImport
  /\ ui = NoSearch
  /\ last = Step("fetchAll", "ok", NoOp, NoAlert)

NextImport ==
  \/ \E text \in ImportTexts : importOnload(text)
  \/ importLongRows(LongRows)
  \/ \E error \in BOOLEAN : importBatch(error)
  \/ \E f \in fetches, error \in FetchErrors : fetchAll(f, error) /\ UNCHANGED <<scope, imp, ui>>
  \/ SessionExpired /\ UNCHANGED <<scope, imp, ui>>
  \/ Rendered /\ signOut /\ UNCHANGED <<scope, imp, ui>>

SpecImport == InitImport /\ [][NextImport]_vars

\* What the user types into the search box.
ViewQueries ==
  { <<>>, <<"f", "l", "y">>, <<"F", "L", "Y">>, <<"f", "l", "y", " ">>, <<" ">>,
    <<" ", "B", "a", "c", "k">>, <<"y", " ", "s">>, <<"2", "5">>, <<"-", "0", "2", "-">>,
    <<"x">> }

\* Held workouts the table is shown for: n of them, newest first.
ViewStrokes == <<"Fly", "Free", "Back", "Fly", "IM", "Breast", "Fly", "Drill">>
ViewNotes == <<"", "easy", "fly set", "Hard 25s", "kick">>
ViewRow(n, k) ==
  [id |-> SrvId(100 + k), user_id |-> "u1", date |-> DateOfDay(n + 1 - k),
   distance_m |-> 100 * (1 + (k % 16)), duration_min |-> 10 + (k % 21),
   stroke |-> ViewStrokes[1 + (k % 8)], rpe |-> Num(5), notes |-> ViewNotes[1 + (k % 5)]]
ViewRows(n) == [k \in 1..n |-> ViewRow(n, k)]
ViewLens == {0, 3, 50, 51, 120}

\* The training table of a signed-in, loaded session.
InitView ==
  /\ session = "u1"
  /\ \E n \in ViewLens :
       /\ rows = ViewRows(n)
       /\ dbWorkouts = {ViewRow(n, k) : k \in 1..n}
  /\ comps = <<>>
  /\ pbs = {}
  /\ editingId = NoId
  /\ draft = emptyWorkout
  /\ ceditingId = NoId
  /\ cdraft = emptyComp
  /\ dbComps = {}
  /\ pending = {}
  /\ fetches = {}
  /\ pbTimers = 0
  /\ pbReads = {}
  /\ nextId = 300
  /\ nextTmp = 1
  /\ nOps = 0
  /\ nAuth = 1
  /\ scope = "workouts"
  /\ imp = NoImport
  /\ ui = NoSearch
  /\ last = Step("fetchAll", "ok", NoOp, NoAlert)

ViewUnchanged ==
  UNCHANGED <<session, rows, comps, pbs, editingId, draft, ceditingId, cdraft,
              dbWorkouts, dbComps, pending, fetches, pbTimers, pbReads, nextId, nextTmp,
              nOps, nAuth, scope, imp>>

NextView ==
  \/ \E text \in ViewQueries : setSearch(text) /\ ViewUnchanged
  \/ debounceQuery /\ ViewUnchanged
  \/ clearSearch /\ ViewUnchanged
  \/ prevPage /\ ViewUnchanged
  \/ nextPage /\ ViewUnchanged

SpecView == InitView /\ [][NextView]_vars

\* The table where a debounce timer that is set fires, 250 ms after it was set.
SpecDebounce == InitView /\ [][NextView]_vars /\ WF_vars(debounceQuery /\ ViewUnchanged)

\* A signed-in, loaded session in which the user only edits, saves and
\* deletes: no auth event, no reload.
InitSync ==
  /\ session = "u1"
  /\ dbWorkouts = InitWorkouts
  /\ dbComps = InitComps
  /\ rows \in SelectDateDesc(Visible(dbWorkouts, "u1"))
  /\ comps \in SelectDateDesc(Visible(dbComps, "u1"))
  /\ pbs \in SelectPersonalBests(dbComps, "u1")
  /\ editingId = NoId
  /\ draft = emptyWorkout
  /\ ceditingId = NoId
  /\ cdraft = emptyComp
  /\ pending = {}
  /\ fetches = {}
  /\ pbTimers = 0
  /\ pbReads = {}
  /\ nextId = 3
  /\ nextTmp = 1
  /\ nOps = 0
  /\ nAuth = 1
  /\ scope \in {"workouts", "competitions"}
  /\ imp = NoImport
  /\ ui = NoSearch
  /\ last = Step("fetchAll", "ok", NoOp, NoAlert)

NextSync ==
  \/ Rendered /\ scope = "workouts" /\ WorkoutEvents /\ UNCHANGED <<scope, imp, ui>>
  \/ \E op \in pending, error \in BOOLEAN : saveWorkoutResume(op, error) /\ UNCHANGED <<scope, imp, ui>>
  \/ \E op \in pending, error \in BOOLEAN : deleteWorkoutResume(op, error) /\ UNCHANGED <<scope, imp, ui>>
  \/ Rendered /\ scope = "competitions" /\ CompEvents /\ UNCHANGED <<scope, imp, ui>>
  \/ \E op \in pending, error \in BOOLEAN : saveCompetitionResume(op, error) /\ UNCHANGED <<scope, imp, ui>>
  \/ \E op \in pending, error \in BOOLEAN : deleteCompetitionResume(op, error) /\ UNCHANGED <<scope, imp, ui>>
  \/ refreshPBs /\ UNCHANGED <<scope, imp, ui>>
  \/ \E data \in pbReads, error \in BOOLEAN : refreshPBsResume(data, error) /\ UNCHANGED <<scope, imp, ui>>

SpecSync == InitSync /\ [][NextSync]_vars

\* Distances and times (in hundredths of a second) typed into the result
\* form: nothing (0), less than the least value, the least value, more, and
\* text that is no number.
NormDistances == {Num(0), Num(10), Num(25), Num(200), NaN}
NormTimes == {Num(0), Num(50), Num(100), Num(6150), NaN}
NormInputs ==
  {[date |-> 20240105, meet |-> "C", distance_m |-> d, stroke |-> "Back", time_sec |-> t] :
     d \in NormDistances, t \in NormTimes}

\* The onChange handlers of the result form.
typeCompetition(inp) ==
  /\ cdraft' = TypedComp(cdraft, inp)
  /\ last' = Step("typeCompetition", "none", NoOp, NoAlert)
  /\ UNCHANGED <<session, rows, comps, pbs, editingId, draft, ceditingId, dbWorkouts,
                 dbComps, pending, fetches, pbTimers, pbReads, nextId, nextTmp, nOps,
                 nAuth>>

\* A signed-in, loaded session in which results are typed and saved.
NextNorm ==
  \/ \E inp \in NormInputs : typeCompetition(inp) /\ UNCHANGED <<scope, imp, ui>>
  \/ saveCompetition(cdraft) /\ UNCHANGED <<scope, imp, ui>>
  \/ \E op \in pending, error \in BOOLEAN : saveCompetitionResume(op, error) /\ UNCHANGED <<scope, imp, ui>>

SpecNorm == InitLive /\ [][NextNorm]_vars

\* Distances, durations and efforts typed into the training form: nothing
\* (0), negative, whole, not whole, too large, no number; an effort left as
\* the record had it (absent).
NormWDistances == {Num(-5), Num(0), Num(1500), NaN}
NormWDurations == {Num(0), Num(25), NaN}
NormRpes == {Num(-3), Num(0), Num(1), Num(7), Half(7), Num(10), Num(12), NaN, Undefined}
NormWInput(d, t, e) ==
  [date |-> 20240302, distance_m |-> d, duration_min |-> t, stroke |-> "Drill",
   rpe |-> e, notes |-> "kick"]
NormWInputs ==
  {NormWInput(d, Num(25), Num(7)) : d \in NormWDistances}
    \cup {NormWInput(Num(1500), t, Num(7)) : t \in NormWDurations}
    \cup {NormWInput(Num(1500), Num(25), e) : e \in NormRpes}

\* The onChange handlers of the training form.
typeWorkout(inp) ==
  /\ draft' = TypedWorkout(draft, inp)
  /\ last' = Step("typeWorkout", "none", NoOp, NoAlert)
  /\ UNCHANGED <<session, rows, comps, pbs, editingId, ceditingId, cdraft, dbWorkouts,
                 dbComps, pending, fetches, pbTimers, pbReads, nextId, nextTmp, nOps,
                 nAuth>>

\* A signed-in, loaded session in which workouts are typed and saved.
NextNormW ==
  \/ \E inp \in NormWInputs : typeWorkout(inp) /\ UNCHANGED <<scope, imp, ui>>
  \/ \E id \in RowIds : editWorkout(id) /\ UNCHANGED <<scope, imp, ui>>
  \/ saveWorkout(draft) /\ UNCHANGED <<scope, imp, ui>>
  \/ \E op \in pending, error \in BOOLEAN : saveWorkoutResume(op, error) /\ UNCHANGED <<scope, imp, ui>>

SpecNormW == InitImport /\ [][NextNormW]_vars

\* The personal_bests view on its own: any competitions table over a small
\* universe of results (two owners, equal times, equal dates), read by u1.
PBUniverse ==
  { [id |-> SrvId(11), user_id |-> "u1", date |-> 20240101, meet |-> "A",
     distance_m |-> 50, stroke |-> "Free", time_sec |-> 2810],
    [id |-> SrvId(12), user_id |-> "u1", date |-> 20240201, meet |-> "B",
     distance_m |-> 50, stroke |-> "Free", time_sec |-> 2795],
    [id |-> SrvId(13), user_id |-> "u1", date |-> 20240115, meet |-> "C",
     distance_m |-> 50, stroke |-> "Free", time_sec |-> 2795],
    [id |-> SrvId(14), user_id |-> "u1", date |-> 20240115, meet |-> "D",
     distance_m |-> 50, stroke |-> "Free", time_sec |-> 2795],
    [id |-> SrvId(15), user_id |-> "u1", date |-> 20240110, meet |-> "A",
     distance_m |-> 100, stroke |-> "Back", time_sec |-> 7000],
    [id |-> SrvId(16), user_id |-> "u2", date |-> 20240120, meet |-> "E",
     distance_m |-> 50, stroke |-> "Free", time_sec |-> 2700] }

InitPB ==
  /\ session = "u1"
  /\ rows = <<>>
  /\ comps = <<>>
  /\ pbs = {}
  /\ editingId = NoId
  /\ draft = emptyWorkout
  /\ ceditingId = NoId
  /\ cdraft = emptyComp
  /\ dbWorkouts = {}
  /\ dbComps \in SUBSET PBUniverse
  /\ pending = {}
  /\ fetches = {}
  /\ pbTimers = 1
  /\ pbReads = {}
  /\ nextId = 20
  /\ nextTmp = 1
  /\ nOps = 0
  /\ nAuth = 0
  /\ scope = "competitions"
  /\ imp = NoImport
  /\ ui = NoSearch
  /\ last = Step("init", "none", NoOp, NoAlert)

NextPB ==
  \/ refreshPBs /\ UNCHANGED <<scope, imp, ui>>
  \/ \E data \in pbReads, error \in BOOLEAN : refreshPBsResume(data, error) /\ UNCHANGED <<scope, imp, ui>>

SpecPB == InitPB /\ [][NextPB]_vars

\* The training form with distances and durations typed into it, the pace
\* line under it showing pacePer100 of the two.
PaceDistances ==
  {Undefined, NaN, Num(0), Num(25), Num(50), Num(100), Num(400), Half(400), Num(1500),
   Num(3000), Num(10000)}
PaceDurations ==
  {Undefined, NaN, Num(0), Num(1), Half(1), Num(10), Num(25), Half(25), Num(60), Num(90)}
PaceInputs == {NormWInput(d, t, Num(5)) : d \in PaceDistances, t \in PaceDurations}
NextPace == \E inp \in PaceInputs : typeWorkout(inp) /\ UNCHANGED <<scope, imp, ui>>
SpecPace == InitImport /\ [][NextPace]_vars

\* The whole app where every remote mutation call in flight is answered, with
\* data or with an error.
SpecAnswered ==
  /\ Init
  /\ [][Next]_vars
  /\ WF_vars(\E op \in pending, error \in BOOLEAN : saveWorkoutResume(op, error) /\ UNCHANGED <<scope, imp, ui>>)
  /\ WF_vars(\E op \in pending, error \in BOOLEAN : deleteWorkoutResume(op, error) /\ UNCHANGED <<scope, imp, ui>>)
  /\ WF_vars(\E op \in pending, error \in BOOLEAN : saveCompetitionResume(op, error) /\ UNCHANGED <<scope, imp, ui>>)
  /\ WF_vars(\E op \in pending, error \in BOOLEAN : deleteCompetitionResume(op, error) /\ UNCHANGED <<scope, imp, ui>>)

\* =============================================================== claims
SaveResumes == {"saveWorkoutResume", "saveCompetitionResume"}
DeleteResumes == {"deleteWorkoutResume", "deleteCompetitionResume"}
Handlers == {"saveWorkout", "saveCompetition", "deleteWorkout", "deleteCompetition"}

\* The collection of a table, now and after the step.
Coll(tbl) == IF tbl = "workouts" THEN rows ELSE comps
CollNext(tbl) == IF tbl = "workouts" THEN rows' ELSE comps'
Db(tbl) == IF tbl = "workouts" THEN dbWorkouts ELSE dbComps
DbNext(tbl) == IF tbl = "workouts" THEN dbWorkouts' ELSE dbComps'

IdsOf(r) == {r[i].id : i \in DOMAIN r}
EntriesOf(r, id) == {<<i, r[i]>> : i \in {j \in DOMAIN r : r[j].id = id}}
RecordsOf(r, id) == {r[i] : i \in {j \in DOMAIN r : r[j].id = id}}

\* C1: an update whose remote call fails, nothing else having touched the
\* collection since the update's optimistic step, leaves the collection
\* exactly as it was before the update was invoked, and the failure is
\* reported.
C1_UpdateRollbackLaw ==
  [][(last'.ev \in SaveResumes /\ last'.res = "error" /\ last'.op.kind = "update"
      /\ Coll(last'.op.tbl) = last'.op.post)
       => /\ CollNext(last'.op.tbl) = last'.op.pre
          /\ last'.alert = ErrorAlert]_vars

\* C1 witness: a failed update of a held workout has been rolled back: the
\* update had changed the record and the list is the one from before it.
C1_Witness ==
  /\ last.ev = "saveWorkoutResume" /\ last.res = "error" /\ last.op.kind = "update"
  /\ HasId(last.op.pre, last.op.id)
  /\ last.op.post # last.op.pre
  /\ rows = last.op.pre

\* C2: a create whose remote insert fails removes the temporary entry and
\* changes no other entry, reports the failure, and, nothing else having
\* touched the collection meanwhile, leaves it exactly as it was before the
\* create was invoked.
C2_CreateRollback ==
  [][(last'.ev \in SaveResumes /\ last'.res = "error" /\ last'.op.kind = "insert")
       => /\ ~HasId(CollNext(last'.op.tbl), last'.op.id)
          /\ \A b \in IdsOf(Coll(last'.op.tbl)) \ {last'.op.id} :
                RecordsOf(CollNext(last'.op.tbl), b) = RecordsOf(Coll(last'.op.tbl), b)
          /\ Len(CollNext(last'.op.tbl)) =
               Len(Coll(last'.op.tbl)) - Cardinality(EntriesOf(Coll(last'.op.tbl), last'.op.id))
          /\ last'.alert = ErrorAlert
          /\ Coll(last'.op.tbl) = last'.op.post => CollNext(last'.op.tbl) = last'.op.pre]_vars

\* C2 witness: a failed create has been rolled back out of a list that held
\* another record, and the list is the one from before the create.
C2_Witness ==
  /\ last.ev = "saveWorkoutResume" /\ last.res = "error" /\ last.op.kind = "insert"
  /\ IsTemp(last.op.id)
  /\ last.op.pre # <<>>
  /\ rows = last.op.pre

\* C3: a confirmed delete removes the record from memory at once, with its
\* remote call still unanswered and the store untouched; when the remote
\* delete fails the record is back at its original position and the failure
\* is reported.
C3_DeleteThenRestore ==
  [][/\ (last'.ev \in {"deleteWorkout", "deleteCompetition"} /\ last'.res = "issued")
          => /\ ~HasId(CollNext(last'.op.tbl), last'.op.id)
             /\ last'.op \in pending'
             /\ DbNext(last'.op.tbl) = Db(last'.op.tbl)
     /\ (last'.ev \in DeleteResumes /\ last'.res = "error")
          => /\ \A e \in EntriesOf(last'.op.pre, last'.op.id) :
                   e \in EntriesOf(CollNext(last'.op.tbl), last'.op.id)
             /\ last'.alert = ErrorAlert]_vars

\* C3 witness: a held workout was deleted, the remote delete failed, and the
\* record is held again.
C3_Witness ==
  /\ last.ev = "deleteWorkoutResume" /\ last.res = "error"
  /\ HasId(last.op.pre, last.op.id)
  /\ ~HasId(last.op.post, last.op.id)
  /\ HasId(rows, last.op.id)

\* C4: the rollback of a failed mutation on one identifier leaves the
\* in-memory entries of every other identifier as they are: none changed,
\* none removed, none brought back.
C4_RollbackTouchesOnlyItsId ==
  [][(last'.ev \in SaveResumes \cup DeleteResumes /\ last'.res = "error")
       => \A b \in (IdsOf(Coll(last'.op.tbl)) \cup IdsOf(CollNext(last'.op.tbl)))
                     \ {last'.op.id} :
             EntriesOf(CollNext(last'.op.tbl), b) = EntriesOf(Coll(last'.op.tbl), b)
                \/ /\ RecordsOf(CollNext(last'.op.tbl), b) = RecordsOf(Coll(last'.op.tbl), b)
                   /\ RecordsOf(Coll(last'.op.tbl), b) # {}]_vars

\* A record of the store against the normalized draft it was inserted from:
\* equal in every field but the identifiers, an absent rpe stored as null.
SameContent(a, b) ==
  \A f \in DOMAIN a \ {"id", "user_id"} :
     a[f] = b[f] \/ (f = "rpe" /\ {a[f], b[f]} \subseteq {Undefined, Null})

C6_NoTempIdWhenSettled ==
  pending = {} => \A id \in IdsOf(rows) \cup IdsOf(comps) : ~IsTemp(id)

\* C7: a save or a confirmed delete invoked while nobody is signed in is
\* rejected with the sign-in message, changes neither collection and sends
\* nothing to the store.
C7_SignedOutRejected ==
  [][(session = NoUser /\ last'.ev \in Handlers /\ last'.res # "declined")
       => /\ last'.res = "rejected"
          /\ last'.alert = SignInAlert
          /\ UNCHANGED <<rows, comps, pending>>]_vars

\* C8: a delete whose confirmation is declined changes nothing: not the
\* collections, not the personal bests, not the store; no remote call is
\* sent, no reload is started and no personal-bests refresh is scheduled.
C8_DeclinedDeleteDoesNothing ==
  [][(last'.ev \in {"deleteWorkout", "deleteCompetition"} /\ last'.res = "declined")
       => UNCHANGED <<rows, comps, pbs, dbWorkouts, dbComps, pending, fetches,
                      pbTimers, pbReads, session>>]_vars

\* C8 witness: the delete of a held workout has just been declined.
C8_Witness ==
  /\ last.ev = "deleteWorkout" /\ last.res = "declined"
  /\ rows # <<>>
  /\ pending = {}

\* The results held in memory.
HeldResults == {comps[i] : i \in DOMAIN comps} \ {UndefinedRec}

\* C9: whenever no mutation of a result is in flight, no personal-bests
\* refresh is scheduled or in flight and no load is in flight either, the
\* personal bests held in memory are the ones of the results held in memory:
\* one row for each (stroke, distance) among them, with the least time among
\* them.
C9_PBsMatchResults ==
  ({op \in pending : op.tbl = "competitions"} = {} /\ pbTimers = 0 /\ pbReads = {}
     /\ fetches = {})
    => /\ \A r \in HeldResults :
             \E p \in pbs : /\ p.stroke = r.stroke /\ p.distance_m = r.distance_m
                            /\ p.time_sec <= r.time_sec
       /\ \A p \in pbs :
             \E r \in HeldResults : /\ p.stroke = r.stroke /\ p.distance_m = r.distance_m
                                    /\ p.time_sec = r.time_sec
       /\ \A p, q \in pbs :
             (p.stroke = q.stroke /\ p.distance_m = q.distance_m) => p = q

\* C10: over every competitions table, every content of the personal_bests
\* view has exactly one row for each (owner, stroke, distance) of the table
\* and none else; the row is taken from a result of that key with the least
\* time and, among those of the least time, the earliest date.
C10_PersonalBestsDerivation ==
  \A view \in PersonalBests(dbComps) :
     /\ \A r \in dbComps :
           Cardinality({p \in view : <<p.user_id, p.stroke, p.distance_m>> = PBKey(r)}) = 1
     /\ \A p \in view :
           \E r \in dbComps :
              /\ p = [user_id |-> r.user_id, stroke |-> r.stroke,
                      distance_m |-> r.distance_m, time_sec |-> r.time_sec,
                      date |-> r.date, meet |-> r.meet]
              /\ \A o \in dbComps :
                    (o.user_id = r.user_id /\ o.stroke = r.stroke
                       /\ o.distance_m = r.distance_m)
                      => /\ r.time_sec <= o.time_sec
                         /\ (o.time_sec = r.time_sec => r.date <= o.date)

\* C10 witness: the table holds 28.10 s on 2024-01-01, 27.95 s on 2024-02-01
\* and 27.95 s on 2024-01-15 for one key, the view has been read, and the
\* personal best held for that key is 27.95 s on 2024-01-15.
C10_Witness ==
  /\ last.ev = "refreshPBsResume" /\ last.res = "ok"
  /\ {SrvId(11), SrvId(12), SrvId(13)} \subseteq {r.id : r \in dbComps}
  /\ \E p \in pbs : /\ p.user_id = "u1" /\ p.stroke = "Free" /\ p.distance_m = 50
                    /\ p.time_sec = 2795 /\ p.date = 20240115

CompResumes == {"saveCompetitionResume", "deleteCompetitionResume"}

\* C11: a refreshPBs timer is set only by the step in which a result
\* mutation's remote call completes, every read of the personal_bests view
\* is sent by such a timer, and after every successful create, update or
\* delete of a result a read of the view is eventually sent.
C11_RefreshAfterMutation ==
  /\ [][/\ pbTimers' > pbTimers
             => /\ last'.ev \in CompResumes
                /\ last'.op \in pending /\ last'.op \notin pending'
        /\ last'.ev = "refreshPBs" => (pbTimers > 0 /\ pbTimers' = pbTimers - 1)]_vars
  /\ (last.ev \in CompResumes /\ last.res = "ok") ~> (last.ev = "refreshPBs")

\* C11 witness: a created result is in the store, no mutation is pending,
\* and the read of the view has just been sent.
C11_Witness ==
  /\ last.ev = "refreshPBs"
  /\ pending = {}
  /\ \E r \in dbComps : r.id = SrvId(3)

\* C12: in every state in which the tables can be shown, the held workouts
\* and the held results are each in date-descending order.
C12_ListsDateDescending ==
  Rendered => (IsDateDesc(rows) /\ IsDateDesc(comps))

\* C13: a bulk import submits the normalized rows in consecutive batches of
\* at most 500, one after the other in row order; the first failing batch is
\* reported and ends the submissions, and the batches before it stay
\* committed.
C13_BatchesInOrder ==
  LET n == Len(imp.cleaned)
      answered == Len(imp.sent)
      committed ==
        IF answered = 0 THEN 0
        ELSE IF imp.sent[answered].ok THEN imp.sent[answered].to
        ELSE 500 * (answered - 1)
  IN  /\ \A k \in DOMAIN imp.sent :
           LET b == imp.sent[k]
           IN  /\ b.from = 500 * (k - 1) + 1
               /\ b.to = (IF 500 * k < n THEN 500 * k ELSE n)
               /\ b.to - b.from + 1 <= 500
               /\ ~b.ok => /\ k = answered
                           /\ imp.phase = "done"
                           /\ last.ev = "importBatch" => last.alert = ErrorAlert
               /\ b.ok => \A j \in b.from..b.to :
                            ImportedRow(imp.cleaned[j], SrvId(b.firstId + j - b.from))
                              \in dbWorkouts
      /\ Cardinality(dbWorkouts) = Cardinality(InitWorkouts) + committed
      /\ imp.phase = "running" => answered * 500 < n
      /\ (imp.phase = "done" /\ imp.sent[answered].ok) => committed = n

C13_Witness ==
  /\ imp.phase = "done"
  /\ Len(imp.cleaned) > 500
  /\ Len(imp.sent) = 2
  /\ imp.sent[1].ok
  /\ ~imp.sent[2].ok
  /\ Cardinality(dbWorkouts) = Cardinality(InitWorkouts) + 500

\* C14: when a bulk import finishes, after its last batch or at a failed one,
\* a full re-list is sent that reads the store as it then is; the answer of
\* a re-list that succeeds replaces the held collections.
C14_RelistAfterImport ==
  [][/\ (last'.ev = "importBatch" /\ imp'.phase = "done") =>
          \E f \in fetches' \ fetches :
             /\ f.w \in SelectDateDesc(Visible(dbWorkouts', session'))
             /\ f.c \in SelectDateDesc(Visible(dbComps', session'))
             /\ f.p \in SelectPersonalBests(dbComps', session')
     /\ (last'.ev = "fetchAll" /\ last'.res = "ok") =>
          \E f \in fetches \ fetches' : rows' = f.w /\ comps' = f.c /\ pbs' = f.p]_vars

C14_Witness ==
  /\ imp.phase = "done"
  /\ session = "u1"
  /\ last.ev = "fetchAll"
  /\ last.res = "ok"
  /\ fetches = {}
  /\ \E k \in DOMAIN imp.sent : imp.sent[k].ok
  /\ \A i \in DOMAIN rows : rows[i] \in dbWorkouts
  /\ Len(rows) > Cardinality(InitWorkouts)

\* The lines of a text that are not empty: the places where one starts.
NonEmptyLines(text) ==
  Cardinality({i \in DOMAIN text :
                 /\ text[i] \notin {LF, CRLF}
                 /\ (i = 1 \/ text[i - 1] \in {LF, CRLF})})

\* C15: a text with no line after its header line (or with no line at all)
\* is answered by the 'no rows found' alert: nothing is inserted, no re-list
\* is sent and the collections stay as they are. A text with a non-empty line
\* after the header is not answered so.
C15_NoRowsRejected ==
  [][last'.ev = "onload" =>
       /\ (NonEmptyLines(imp'.text) < 2) <=> (last'.res = "norows")
       /\ (last'.alert = NoRowsAlert) <=> (last'.res = "norows")
       /\ last'.res = "norows" =>
            /\ imp'.phase = "none"
            /\ UNCHANGED <<dbWorkouts, dbComps, nextId, fetches, pending, rows, comps, pbs>>
       /\ (NonEmptyLines(imp'.text) >= 2 /\ session # NoUser) =>
            /\ imp'.phase = "running"
            /\ Len(imp'.cleaned) = NonEmptyLines(imp'.text) - 1]_vars

C15_Witness ==
  /\ last.ev = "onload"
  /\ last.res = "norows"
  /\ imp.text = HeaderText
  /\ rows # <<>>

\* C16: the import finds a row's values by the header's names, whatever
\* their case and the order of the columns, and takes 'distance' for
\* 'distance_m' and 'duration' for 'duration_min': the row
\* 2024-05-01,1500,25,Free,6,steady under date,distance_m,duration_min,
\* stroke,rpe,notes becomes a session with exactly these values.
C16_ExampleRowImported ==
  (imp.text \in ExampleTexts /\ imp.phase # "none") =>
     /\ Len(imp.cleaned) = 1
     /\ Number(imp.cleaned[1].distance_m) = Num(1500)
     /\ Number(imp.cleaned[1].duration_min) = Num(25)
     /\ \A k \in DOMAIN imp.sent :
          imp.sent[k].ok =>
            [id |-> SrvId(imp.sent[k].firstId), user_id |-> imp.cleaned[1].user_id,
             date |-> 20240501, distance_m |-> 1500, duration_min |-> 25,
             stroke |-> "Free", rpe |-> Num(6), notes |-> "steady"] \in dbWorkouts

C16_Witness ==
  /\ imp.phase = "done"
  /\ imp.text = ExampleText(<<4, 1, 6, 2, 5, 3>>, "short", CRLF)
  /\ imp.sent[1].ok
  /\ \E i \in DOMAIN rows :
       /\ rows[i].date = 20240501
       /\ rows[i].distance_m = 1500
       /\ rows[i].duration_min = 25
       /\ rows[i].stroke = "Free"
       /\ rows[i].rpe = Num(6)
       /\ rows[i].notes = "steady"

\* The places of the records that match query text q: a record matches when
\* q, letter case aside, stands somewhere in its date, distance, duration,
\* stroke or notes.
StandsIn(q, s) ==
  \E o \in 0..(Len(s) - Len(q)) : \A p \in 1..Len(q) : LowerChar(s[o + p]) = LowerChar(q[p])
MatchingPlaces(q) ==
  {i \in DOMAIN rows :
     \/ StandsIn(q, DateChars(rows[i].date))
     \/ StandsIn(q, StringOf(rows[i].distance_m))
     \/ StandsIn(q, StringOf(rows[i].duration_min))
     \/ StandsIn(q, Spell(rows[i].stroke))
     \/ StandsIn(q, Spell(rows[i].notes))}

\* The table shows page 'page' (of 50) of the records at the places M, in
\* the order they are held in.
ShowsPageOf(M, shown, page) ==
  LET after == Cardinality(M) - 50 * page
  IN  /\ Len(shown) = (IF after < 0 THEN 0 ELSE IF after > 50 THEN 50 ELSE after)
      /\ \A j \in DOMAIN shown :
           \E i \in M : /\ Cardinality({k \in M : k < i}) = 50 * page + j - 1
                        /\ shown[j] = rows[i]

\* C17 as stated: the table shows page pageIndex of the records that contain
\* the query text as typed.
C17_ViewAsStated ==
  ShowsPageOf(MatchingPlaces(ui.query), filtered(rows, ui.query, ui.page), ui.page)

\* C17: the table shows elements [50 * pageIndex, 50 * pageIndex + 50) of the
\* records, in their order, whose date, distance, duration, stroke or notes
\* contains the query text without the white space around it, letter case
\* aside; a query that is empty or white space filters nothing, and a page
\* past the last match is empty.
C17_ViewOfTrimmedQuery ==
  /\ ShowsPageOf(MatchingPlaces(TrimChars(ui.query)), filtered(rows, ui.query, ui.page),
                 ui.page)
  /\ TrimChars(ui.query) = <<>> =>
       filtered(rows, ui.query, ui.page) = Slice(rows, 50 * ui.page, 50 * ui.page + 50)
  /\ 50 * ui.page >= Len(rows) => filtered(rows, ui.query, ui.page) = <<>>

C17_Witness ==
  /\ ui.query = <<"F", "L", "Y">>
  /\ ui.page = 1
  /\ Len(rows) = 120
  /\ Len(filtered(rows, ui.query, ui.page)) \in 1..49

\* A held record and a stored one with the same id and the same date,
\* distance, duration (or meet and time), stroke and notes.
SameRecord(held, stored) ==
  /\ held # UndefinedRec
  /\ held.id = stored.id
  /\ \A f \in DOMAIN stored \ {"id", "user_id", "rpe"} : held[f] = stored[f]

\* The held list has exactly the stored records of the owner, each once.
HoldsExactly(held, stored) ==
  /\ Len(held) = Cardinality(stored)
  /\ \A r \in stored : \E i \in DOMAIN held : SameRecord(held[i], r)

\* C18: whenever no remote call is outstanding, the held workouts are
\* exactly the owner's workouts in the store, with the same ids and values
\* (the rpe left aside), and the held results exactly the owner's results.
C18_HeldEqualsStore ==
  (pending = {} /\ fetches = {} /\ pbReads = {})
    => /\ HoldsExactly(rows, Visible(dbWorkouts, session))
       /\ HoldsExactly(comps, Visible(dbComps, session))

\* C19: once nobody is signed in and the held collections are empty, a
\* mutation issued before the sign-out that completes now, with success or
\* with an error, leaves them empty.
C19_EmptyWhileSignedOut ==
  [][(/\ session = NoUser
      /\ rows = <<>> /\ comps = <<>> /\ pbs = {}
      /\ last'.ev \in SaveResumes \cup DeleteResumes)
       => (rows' = <<>> /\ comps' = <<>> /\ pbs' = {})]_vars

\* C20: a saved result has distance max(25, d) for a typed number d and 50
\* for a distance that is no number, and time max(1 s, t) for a typed number
\* t and 40 s for a time that is no number; so a typed 0 gives 25 and 1 s.
C20_ResultNormalization ==
  [][(last'.ev = "saveCompetition" /\ last'.res = "issued") =>
       /\ last'.op.clean.distance_m =
            (IF cdraft.distance_m.k # "num" THEN 50
             ELSE IF cdraft.distance_m.v > 25 THEN cdraft.distance_m.v ELSE 25)
       /\ last'.op.clean.time_sec =
            (IF cdraft.time_sec.k # "num" THEN 4000
             ELSE IF cdraft.time_sec.v > 100 THEN cdraft.time_sec.v ELSE 100)]_vars

\* C21: a saved workout whose draft has an effort, whatever number it is,
\* carries min(10, max(1, effort)); the effort is left out only when the
\* draft has none.
C21_EffortClamped ==
  [][(last'.ev = "saveWorkout" /\ last'.res = "issued") =>
       IF draft.rpe.k = "num"
       THEN last'.op.clean.rpe =
              Num(IF draft.rpe.v < 1 THEN 1 ELSE IF draft.rpe.v > 10 THEN 10
                  ELSE draft.rpe.v)
       ELSE draft.rpe = Undefined => last'.op.clean.rpe = Undefined]_vars

\* C22: every workout sent to the store by a bulk import is within range:
\* distance and duration at least 0, a stroke of the six, and an effort that
\* is absent or a whole number from 1 to 10.
C22_ImportPayloadInRange ==
  \A j \in DOMAIN imp.cleaned :
     LET c == imp.cleaned[j]
     IN  /\ c.distance_m.k = "num" /\ c.distance_m.v >= 0
         /\ c.duration_min.k = "num" /\ c.duration_min.v >= 0
         /\ c.stroke \in {Str(n) : n \in StrokeNames}
         /\ \/ c.rpe \in {Null, Undefined, NaN}
            \/ c.rpe.k = "num" /\ c.rpe.v \in 1..10

\* The draft the training form holds once the cells of a parsed row are typed
\* into its fields: the number fields store Number of the text typed.
FormDraftOf(r) ==
  [date |-> r.date, distance_m |-> Number(r.distance_m),
   duration_min |-> Number(r.duration_min), stroke |-> r.stroke,
   rpe |-> IF r.rpe \in {Null, Undefined} THEN Undefined ELSE Number(r.rpe),
   notes |-> r.notes]

\* An effort that reaches the store as no value.
NoEffort == {Null, Undefined, NaN}

\* C23: a row read by the bulk import is normalized to the same distance,
\* duration and effort as the create path gives for a draft holding the same
\* values, an effort being left out by both or kept with the same value by both.
C23_ImportAgreesWithCreate ==
  [][(last'.ev = "onload" /\ last'.res = "issued") =>
       \A j \in DOMAIN imp'.cleaned :
          LET c == imp'.cleaned[j]
              w == cleanWorkout(FormDraftOf(parseCSV(imp'.text)[j]))
          IN  /\ c.distance_m = Num(w.distance_m)
              /\ c.duration_min = Num(w.duration_min)
              /\ IF c.rpe \in NoEffort THEN w.rpe \in NoEffort ELSE c.rpe = w.rpe]_vars

\* C24: a batch of a bulk import that fails after rows were committed is
\* reported with more than the report of a failure with nothing committed,
\* which is the store's message alone: the report tells the progress.
C24_FailureReportsProgress ==
  [][(last'.ev = "importBatch" /\ last'.res = "error" /\ imp.i > 0) =>
       last'.alert # ErrorAlert]_vars

\* The call numbered n is in flight.
InFlight(n) == \E op \in pending : op.n = n

\* C25: every create, update or delete that is issued sends one remote call,
\* under a number not used before; a call leaves the calls in flight only in
\* the step that resumes its handler with the answer, by the success
\* reconciliation or by the rollback, and that step leaves it out for good;
\* every call in flight is eventually so answered.
C25_ReconciledOnce ==
  /\ [](\A op \in pending : op.n <= nOps)
  /\ [][/\ (last'.ev \in Handlers /\ last'.res = "issued") =>
            /\ pending' = pending \cup {last'.op}
            /\ last'.op.n = nOps + 1
            /\ nOps' = nOps + 1
        /\ ~(last'.ev \in Handlers /\ last'.res = "issued") =>
            /\ pending' \subseteq pending
            /\ nOps' >= nOps
        /\ pending # pending' /\ pending' \subseteq pending =>
            /\ last'.ev \in SaveResumes \cup DeleteResumes
            /\ last'.res \in {"ok", "error"}
            /\ pending \ pending' = {last'.op}
        /\ last'.ev \in SaveResumes \cup DeleteResumes =>
            /\ last'.op \in pending
            /\ last'.op \notin pending']_vars
  /\ \A n \in 1..MaxOps : InFlight(n) ~> ~InFlight(n)

C25_Witness ==
  /\ last.ev \in SaveResumes \cup DeleteResumes
  /\ last.res = "error"
  /\ last.op.n = 1
  /\ nOps = 2
  /\ \E op \in pending : op.n = 2

\* C26: the committed query changes only to the input the search box holds at
\* that moment, by the debounce timer or by Clear (which empties both), so a
\* timer never commits an input older than the latest; a timer that is set
\* holds the latest input; and once the input stays the same, the committed
\* query is eventually that input, and stays so.
C26_QueryFollowsInput ==
  /\ [](ui.timer.set => ui.timer.text = ui.search)
  /\ [](~ui.timer.set => ui.query = ui.search)
  /\ [][ui'.query # ui.query =>
          /\ ui'.query = ui'.search
          /\ last'.ev \in {"setQuery", "clearSearch"}
          /\ last'.ev = "clearSearch" => ui'.query = <<>>]_vars
  /\ \A q \in ViewQueries : <>[](ui.search = q) => <>[](ui.query = q)

C26_Witness ==
  /\ last.ev = "setQuery"
  /\ ui.query = <<"f", "l", "y">>
  /\ ui.search = ui.query
  /\ ~ui.timer.set

\* C27: a full re-list in which one of the three reads is answered with an
\* error changes none of the three held collections and raises the error;
\* one in which all three succeed replaces all three with the answers.
C27_FetchAllOrNothing ==
  [][/\ (last'.ev = "fetchAll" /\ last'.res = "error") =>
          /\ UNCHANGED <<rows, comps, pbs>>
          /\ last'.alert = ErrorAlert
     /\ (last'.ev = "fetchAll" /\ last'.res = "ok") =>
          /\ \E f \in fetches \ fetches' : rows' = f.w /\ comps' = f.c /\ pbs' = f.p
          /\ last'.alert = NoAlert]_vars

C27_Witness ==
  /\ last.ev = "fetchAll"
  /\ last.res = "error"
  /\ session # NoUser
  /\ Len(rows) > 0
  /\ \E i \in DOMAIN rows : rows[i] \notin dbWorkouts

\* A number above 0.
Positive(x) == IsNumber(x) /\ Twice(x) > 0

\* C28: the pace shown for a distance and a duration that are both positive
\* is the duration divided by (the distance / 100), in minutes per 100 m; it
\* is 0 when one of the two is 0 or missing.
C28_PaceIsMinutesPer100 ==
  LET d == draft.distance_m
      t == draft.duration_min
      pace == pacePer100(d, t)
  IN  /\ (Positive(d) /\ Positive(t)) =>
            RatEq(pace, RatDiv(RatOf(t), RatDiv(RatOf(d), Rat(100, 1))))
      /\ (d \in {Num(0), Undefined} \/ t \in {Num(0), Undefined}) => RatEq(pace, Rat(0, 1))

\* The part of C28 that holds: 0 when one of the two is 0 or missing, and a
\* hundred times the minutes per 100 m otherwise.
C28_PaceAsComputed ==
  LET d == draft.distance_m
      t == draft.duration_min
      pace == pacePer100(d, t)
  IN  /\ (Positive(d) /\ Positive(t)) =>
            RatEq(pace, RatMul(Rat(100, 1), RatDiv(RatOf(t), RatDiv(RatOf(d), Rat(100, 1)))))
      /\ (d \in {Num(0), Undefined, NaN} \/ t \in {Num(0), Undefined, NaN}) =>
            RatEq(pace, Rat(0, 1))

====
